---- MODULE Spec2Model ----
(***************************************************************************)
(* Model of the sbt-sharding GitHub Action (src/src/index.ts).             *)
(*                                                                         *)
(* Strings are modelled as sequences of tokens.  A path is a token         *)
(* sequence in which "/" separates segments; numeric strings are           *)
(* sequences of one-character tokens.  Arrays are 1-based sequences, so a  *)
(* 0-based index i of the source is index i + 1 here.                      *)
(*                                                                         *)
(* The library calls core.info / core.setOutput / glob are assumed not to  *)
(* throw; every exception the code of index.ts itself raises is modelled.  *)
(***************************************************************************)
EXTENDS Integers, Sequences, FiniteSets, TLC

(***************************************************************************)
(* Bounds of the model.                                                    *)
(***************************************************************************)
\* number of paths of PathTable that exist in the modelled workspace
NumFiles == 4
\* largest shard count passed to the partitioning functions
MaxShards == 3
\* largest file count passed to calculateOptimalShards
MaxFileCount == 1000
\* number of paths a glob of the auto-shard version can return
MaxAutoFiles == 21

(***************************************************************************)
(* Generic helpers.                                                        *)
(***************************************************************************)
Min(a, b) == IF a < b THEN a ELSE b

Max(a, b) == IF a > b THEN a ELSE b

Range(s) == {s[i] : i \in DOMAIN s}

RECURSIVE Flatten(_)
Flatten(ss) == IF ss = <<>> THEN <<>> ELSE ss[1] \o Flatten(Tail(ss))

\* Math.ceil(a / b) for a >= 0, b > 0
Ceil(a, b) == (a + b - 1) \div b

\* injective sequences over S of length at most n
InjectiveSeqs(S, n) ==
  UNION {{s \in [1..k -> S] : \A i, j \in 1..k : i # j => s[i] # s[j]} : k \in 0..n}

(***************************************************************************)
(* Strings.                                                                *)
(***************************************************************************)
\* String.prototype.toLowerCase, token by token
LowerTable ==
  [t \in {"PropertyTest", "IntegrationTest", "SimpleTest", "UnitTest",
          "PropTest", "Container", "E2E", "Property", "Integration", "@Container",
          "@Integration", "Suite", "Test"} |->
     CASE t = "PropertyTest" -> "propertytest"
       [] t = "IntegrationTest" -> "integrationtest"
       [] t = "SimpleTest" -> "simpletest"
       [] t = "UnitTest" -> "unittest"
       [] t = "PropTest" -> "proptest"
       [] t = "Container" -> "container"
       [] t = "E2E" -> "e2e"
       [] t = "Property" -> "property"
       [] t = "Integration" -> "integration"
       [] t = "@Container" -> "@container"
       [] t = "@Integration" -> "@integration"
       [] t = "Suite" -> "suite"
       [] t = "Test" -> "test"]

toLowerCase(str) ==
  [i \in DOMAIN str |-> IF str[i] \in DOMAIN LowerTable THEN LowerTable[str[i]] ELSE str[i]]

\* the keywords that occur as substrings of a lower-case token
SubstringsOf(tok) ==
  CASE tok = "propertytest" -> {"property", "propertytest"}
    [] tok = "property" -> {"property"}
    [] tok = "proptest" -> {"proptest"}
    [] tok = "integrationtest" -> {"integration"}
    [] tok = "integration" -> {"integration"}
    [] tok = "@integration" -> {"integration", "@integration"}
    [] tok = "container" -> {"container"}
    [] tok = "@container" -> {"container", "@container"}
    [] tok = "e2e" -> {"e2e"}
    [] tok = "endtoend" -> {"endtoend"}
    [] tok = "unittest" -> {"unit", "unittest"}
    [] tok = "unit" -> {"unit"}
    [] OTHER -> {}

\* String.prototype.includes for a keyword
includes(str, kw) == \E i \in DOMAIN str : kw \in SubstringsOf(str[i])

Digits == <<"0", "1", "2", "3", "4", "5", "6", "7", "8", "9">>

DigitValue(c) == (CHOOSE d \in 1..10 : Digits[d] = c) - 1

IsDigit(c) == \E d \in 1..10 : Digits[d] = c

\* Number.prototype.toString for an integer
RECURSIVE NatToString(_)
NatToString(n) ==
  IF n < 10 THEN <<Digits[n + 1]>> ELSE NatToString(n \div 10) \o <<Digits[(n % 10) + 1]>>

toString(n) == IF n < 0 THEN <<"-">> \o NatToString(0 - n) ELSE NatToString(n)

\* Array.prototype.join
RECURSIVE join(_, _)
join(strs, sep) ==
  IF strs = <<>> THEN <<>>
  ELSE IF Len(strs) = 1 THEN strs[1]
  ELSE strs[1] \o <<sep>> \o join(Tail(strs), sep)

\* a JavaScript number that is either an integer or NaN
NaN == [nan |-> TRUE, value |-> 0]

Num(n) == [nan |-> FALSE, value |-> n]

isNaN(v) == v.nan

RECURSIVE DigitsPrefixValue(_, _)
DigitsPrefixValue(str, acc) ==
  IF str = <<>> \/ ~IsDigit(Head(str)) THEN acc
  ELSE DigitsPrefixValue(Tail(str), acc * 10 + DigitValue(Head(str)))

RECURSIVE SkipWhitespace(_)
SkipWhitespace(str) ==
  IF str # <<>> /\ Head(str) = " " THEN SkipWhitespace(Tail(str)) ELSE str

\* parseInt(str, 10): leading whitespace, an optional sign, then the longest
\* prefix of digits; NaN when there is no digit
parseInt(str) ==
  LET s == SkipWhitespace(str)
      neg == s # <<>> /\ Head(s) = "-"
      body == IF s # <<>> /\ Head(s) \in {"-", "+"} THEN Tail(s) ELSE s
  IN IF body = <<>> \/ ~IsDigit(Head(body)) THEN NaN
     ELSE IF neg THEN Num(0 - DigitsPrefixValue(body, 0)) ELSE Num(DigitsPrefixValue(body, 0))

(***************************************************************************)
(* Paths (node:path, POSIX).                                               *)
(***************************************************************************)
\* process.cwd()
cwd == <<"/", "work">>

isAbsolute(p) == p # <<>> /\ Head(p) = "/"

\* the segments of a path: maximal runs of tokens between "/" tokens
RECURSIVE Segments(_, _)
Segments(p, cur) ==
  IF p = <<>> THEN (IF cur = <<>> THEN <<>> ELSE <<cur>>)
  ELSE IF Head(p) = "/" THEN (IF cur = <<>> THEN <<>> ELSE <<cur>>) \o Segments(Tail(p), <<>>)
  ELSE Segments(Tail(p), Append(cur, Head(p)))

\* normalisation of "." and ".." segments of an absolute path
RECURSIVE Normalize(_, _)
Normalize(segs, acc) ==
  IF segs = <<>> THEN acc
  ELSE IF Head(segs) = <<".">> THEN Normalize(Tail(segs), acc)
  ELSE IF Head(segs) = <<"..">>
    THEN Normalize(Tail(segs), IF acc = <<>> THEN acc ELSE SubSeq(acc, 1, Len(acc) - 1))
  ELSE Normalize(Tail(segs), Append(acc, Head(segs)))

\* path.join(a, b), as the list of segments of the joined path
pathJoin(a, b) == a \o <<"/">> \o b

\* path.resolve(...): the normalised absolute segments
resolve2(baseDir, p) ==
  IF isAbsolute(p) THEN Normalize(Segments(p, <<>>), <<>>)
  ELSE Normalize(Segments(pathJoin(baseDir, p), <<>>), <<>>)

resolve1(p) == resolve2(cwd, p)

RECURSIVE CommonPrefixLen(_, _)
CommonPrefixLen(a, b) ==
  IF a = <<>> \/ b = <<>> \/ Head(a) # Head(b) THEN 0
  ELSE 1 + CommonPrefixLen(Tail(a), Tail(b))

\* path.relative(from, to) on resolved segment lists, as a token string
relative(from, to) ==
  LET c == CommonPrefixLen(from, to)
      ups == [i \in 1..(Len(from) - c) |-> <<"..">>]
      rest == SubSeq(to, c + 1, Len(to))
  IN join(ups \o rest, "/")

\* relativePath.startsWith('..') || relativePath.includes('..')
HasDotDot(str) == \E i \in DOMAIN str : str[i] \in {"..", "a..b"}

StartsWithDotDot(str) == str # <<>> /\ Head(str) = ".."

\* variant: the path is searched for ".." as it is written, unresolved
isValidTestFilePathTextual(filePath, baseDir) ==
  ~StartsWithDotDot(filePath) /\ ~HasDotDot(filePath)

isValidTestFilePath(filePath, baseDir) ==
  LET resolved == resolve1(filePath)
      baseResolved == resolve1(baseDir)
      relativePath == relative(baseResolved, resolved)
  IN ~StartsWithDotDot(relativePath) /\ ~HasDotDot(relativePath)

isValidPath(path, baseDir) ==
  LET resolved == resolve2(baseDir, path)
      baseResolved == resolve1(baseDir)
      relativePath == relative(baseResolved, resolved)
  IN ~StartsWithDotDot(relativePath) /\ ~HasDotDot(relativePath)

(***************************************************************************)
(* The workspace: the paths a glob can return, in lexical order.           *)
(***************************************************************************)
PathTable ==
  << <<"..", "/", "PropertyTest", ".scala">>,
     <<"src", "/", "test", "/", "scala", "/", "IntegrationTest", ".scala">>,
     <<"src", "/", "test", "/", "scala", "/", "PropertyTest", ".scala">>,
     <<"src", "/", "test", "/", "scala", "/", "SimpleTest", ".scala">>,
     <<"src", "/", "test", "/", "scala", "/", "UnitTest", ".scala">>,
     <<"src", "/", "test", "/", "scala", "/", "e2e", "/", "PropertyTest", ".scala">> >>

AllFiles == {PathTable[i] : i \in 1..Min(NumFiles, Len(PathTable))}

PathIndex(file) == CHOOSE i \in 1..Len(PathTable) : PathTable[i] = file

\* Array.prototype.sort() of a set of paths
RECURSIVE SortedSeq(_)
SortedSeq(S) ==
  IF S = {} THEN <<>>
  ELSE LET f == CHOOSE x \in S : \A y \in S : PathIndex(x) <= PathIndex(y)
       IN <<f>> \o SortedSeq(S \ {f})

(***************************************************************************)
(* The file system as seen by statSync / readFileSync.                     *)
(* A file content is a sequence of runs [tok, n]: token tok repeated n     *)
(* times.                                                                  *)
(***************************************************************************)
MAX_FILE_SIZE == 10 * 1024 * 1024

\* number of characters of a token
CharLen(tok) == Len(tok)

RECURSIVE ContentLength(_)
ContentLength(content) ==
  IF content = <<>> THEN 0
  ELSE Head(content).n * CharLen(Head(content).tok) + ContentLength(Tail(content))

\* number of matches of the regular expression /\b<name>\s*\(/g in one token
MatchCount(tok, name) ==
  CASE tok = "test(" -> IF name = "test" THEN 1 ELSE 0
    [] tok = "test (" -> IF name = "test" THEN 1 ELSE 0
    [] tok = "it(" -> IF name = "it" THEN 1 ELSE 0
    [] tok = "describe(" -> IF name = "describe" THEN 1 ELSE 0
    [] OTHER -> 0

RECURSIVE CountMatches(_, _)
CountMatches(content, name) ==
  IF content = <<>> THEN 0
  ELSE Head(content).n * MatchCount(Head(content).tok, name)
       + CountMatches(Tail(content), name)

\* content.toLowerCase()
contentToLowerCase(content) ==
  [i \in DOMAIN content |->
     [tok |-> IF content[i].tok \in DOMAIN LowerTable THEN LowerTable[content[i].tok]
              ELSE content[i].tok,
      n |-> content[i].n]]

\* content.includes(kw)
contentIncludes(content, kw) ==
  \E i \in DOMAIN content : content[i].n > 0 /\ kw \in SubstringsOf(content[i].tok)

FileOf(content, readable) ==
  [exists |-> TRUE, readable |-> readable, size |-> ContentLength(content), content |-> content]

MissingFile == [exists |-> FALSE, readable |-> FALSE, size |-> 0, content |-> <<>>]

UnreadableFile == FileOf(<<[tok |-> "Property", n |-> 1]>>, FALSE)

OversizedFile == FileOf(<<[tok |-> "@Container", n |-> 1], [tok |-> "x", n |-> MAX_FILE_SIZE]>>, TRUE)

PlainFile == FileOf(<<[tok |-> "class", n |-> 1], [tok |-> "test(", n |-> 11]>>, TRUE)

RichFile ==
  FileOf(<<[tok |-> "Property", n |-> 1], [tok |-> "@Container", n |-> 1],
           [tok |-> "test (", n |-> 11], [tok |-> "it(", n |-> 10],
           [tok |-> "x", n |-> 5000]>>, TRUE)

\* a readable file of exactly MAX_FILE_SIZE bytes
BoundaryFile ==
  FileOf(<<[tok |-> "Property", n |-> 1], [tok |-> "x", n |-> 10485760 - 8]>>, TRUE)

\* a readable file of MAX_FILE_SIZE + 1 bytes
JustOversizedFile ==
  FileOf(<<[tok |-> "Property", n |-> 1], [tok |-> "x", n |-> 10485760 - 7]>>, TRUE)

\* a file whose only signal is the keyword "Property"
PropertyOnlyFile == FileOf(<<[tok |-> "Property", n |-> 1]>>, TRUE)

\* a file with every signal the content is searched for
FullFile ==
  FileOf(<<[tok |-> "PropTest", n |-> 1], [tok |-> "Container", n |-> 1],
           [tok |-> "@Integration", n |-> 1], [tok |-> "describe(", n |-> 21],
           [tok |-> "x", n |-> 5000]>>, TRUE)

\* keyword-free files at the thresholds of the test count and of the length
Tests10File == FileOf(<<[tok |-> "test(", n |-> 10]>>, TRUE)

Tests11File ==
  FileOf(<<[tok |-> "test(", n |-> 5], [tok |-> "it(", n |-> 3],
           [tok |-> "describe(", n |-> 3]>>, TRUE)

Tests20File == FileOf(<<[tok |-> "test (", n |-> 10], [tok |-> "it(", n |-> 10]>>, TRUE)

Tests21File == FileOf(<<[tok |-> "describe(", n |-> 20], [tok |-> "it(", n |-> 1]>>, TRUE)

Size5000File == FileOf(<<[tok |-> "x", n |-> 5000]>>, TRUE)

Size5001File == FileOf(<<[tok |-> "x", n |-> 5001]>>, TRUE)

\* a file of more than MAX_FILE_SIZE bytes that cannot be read
UnreadableOversizedFile ==
  FileOf(<<[tok |-> "Property", n |-> 1], [tok |-> "x", n |-> 10485760]>>, FALSE)

(***************************************************************************)
(* analyzeTestComplexity                                                   *)
(***************************************************************************)
\* variant: the deduction for unit tests is applied before the additions
PathScoreUnitFirst(testFile) ==
  LET fileName == toLowerCase(testFile)
      s0 == IF includes(fileName, "unit") \/ includes(fileName, "unittest")
            THEN Max(1 - 1, 1) ELSE 1
      s1 == s0 + (IF includes(fileName, "property") \/ includes(fileName, "proptest")
                     \/ includes(fileName, "propertytest") THEN 3 ELSE 0)
  IN s1 + (IF includes(fileName, "integration") \/ includes(fileName, "container")
              \/ includes(fileName, "e2e") \/ includes(fileName, "endtoend")
           THEN 4 ELSE 0)

\* variant: the deduction for unit tests has no floor
PathScoreNoFloor(testFile) ==
  LET fileName == toLowerCase(testFile)
      s1 == 1 + (IF includes(fileName, "property") \/ includes(fileName, "proptest")
                    \/ includes(fileName, "propertytest") THEN 3 ELSE 0)
      s2 == s1 + (IF includes(fileName, "integration") \/ includes(fileName, "container")
                     \/ includes(fileName, "e2e") \/ includes(fileName, "endtoend")
                  THEN 4 ELSE 0)
  IN IF includes(fileName, "unit") \/ includes(fileName, "unittest")
     THEN s2 - 1 ELSE s2

\* the score computed from the file name alone
PathScore(testFile) ==
  LET fileName == toLowerCase(testFile)
      s1 == 1 + (IF includes(fileName, "property") \/ includes(fileName, "proptest")
                    \/ includes(fileName, "propertytest") THEN 3 ELSE 0)
      s2 == s1 + (IF includes(fileName, "integration") \/ includes(fileName, "container")
                     \/ includes(fileName, "e2e") \/ includes(fileName, "endtoend")
                  THEN 4 ELSE 0)
  IN IF includes(fileName, "unit") \/ includes(fileName, "unittest")
     THEN Max(s2 - 1, 1) ELSE s2

\* variant: a keyword the path already counted is not counted again
ContentScoreOncePerKeyword(raw) ==
  LET content == contentToLowerCase(raw)
      totalTests == CountMatches(content, "test") + CountMatches(content, "it")
                    + CountMatches(content, "describe")
      fileSize == ContentLength(content)
  IN (IF contentIncludes(content, "container") \/ contentIncludes(content, "@container")
      THEN 3 ELSE 0)
     + (IF contentIncludes(content, "integration") \/ contentIncludes(content, "@integration")
        THEN 2 ELSE 0)
     + (IF totalTests > 20 THEN 2 ELSE IF totalTests > 10 THEN 1 ELSE 0)
     + (IF fileSize > 5000 THEN 1 ELSE 0)

\* variant: the thresholds 10, 20 and 5000 belong to the upper band
ContentScoreInclusive(raw) ==
  LET content == contentToLowerCase(raw)
      totalTests == CountMatches(content, "test") + CountMatches(content, "it")
                    + CountMatches(content, "describe")
      fileSize == ContentLength(content)
  IN (IF contentIncludes(content, "property") \/ contentIncludes(content, "proptest")
      THEN 2 ELSE 0)
     + (IF contentIncludes(content, "container") \/ contentIncludes(content, "@container")
        THEN 3 ELSE 0)
     + (IF contentIncludes(content, "integration") \/ contentIncludes(content, "@integration")
        THEN 2 ELSE 0)
     + (IF totalTests >= 20 THEN 2 ELSE IF totalTests >= 10 THEN 1 ELSE 0)
     + (IF fileSize >= 5000 THEN 1 ELSE 0)

\* the points added after the content was read
ContentScore(raw) ==
  LET content == contentToLowerCase(raw)
      totalTests == CountMatches(content, "test") + CountMatches(content, "it")
                    + CountMatches(content, "describe")
      fileSize == ContentLength(content)
  IN (IF contentIncludes(content, "property") \/ contentIncludes(content, "proptest")
      THEN 2 ELSE 0)
     + (IF contentIncludes(content, "container") \/ contentIncludes(content, "@container")
        THEN 3 ELSE 0)
     + (IF contentIncludes(content, "integration") \/ contentIncludes(content, "@integration")
        THEN 2 ELSE 0)
     + (IF totalTests > 20 THEN 2 ELSE IF totalTests > 10 THEN 1 ELSE 0)
     + (IF fileSize > 5000 THEN 1 ELSE 0)

\* variant: a file of exactly MAX_FILE_SIZE bytes is too large as well
analyzeTestComplexityFullSizeInclusive(testFile, st) ==
  LET score == PathScore(testFile)
      baseDir == cwd
      filePath == IF isAbsolute(testFile) THEN testFile ELSE pathJoin(baseDir, testFile)
  IN IF ~isValidTestFilePath(filePath, baseDir)
       THEN [score |-> score, warning |-> "path-traversal", stat |-> FALSE, read |-> FALSE]
     ELSE IF ~st.exists
       THEN [score |-> score, warning |-> "none", stat |-> TRUE, read |-> FALSE]
     ELSE IF st.size >= MAX_FILE_SIZE
       THEN [score |-> score, warning |-> "too-large", stat |-> TRUE, read |-> FALSE]
     ELSE IF ~st.readable
       THEN [score |-> score, warning |-> "none", stat |-> TRUE, read |-> TRUE]
     ELSE [score |-> score + ContentScore(st.content), warning |-> "none",
           stat |-> TRUE, read |-> TRUE]

\* the whole function: the score, the warning emitted, and the file-system
\* calls made (stat, read)
analyzeTestComplexityFull(testFile, st) ==
  LET score == PathScore(testFile)
      baseDir == cwd
      filePath == IF isAbsolute(testFile) THEN testFile ELSE pathJoin(baseDir, testFile)
  IN IF ~isValidTestFilePath(filePath, baseDir)
       THEN [score |-> score, warning |-> "path-traversal", stat |-> FALSE, read |-> FALSE]
     ELSE IF ~st.exists
       THEN [score |-> score, warning |-> "none", stat |-> TRUE, read |-> FALSE]
     ELSE IF st.size > MAX_FILE_SIZE
       THEN [score |-> score, warning |-> "too-large", stat |-> TRUE, read |-> FALSE]
     ELSE IF ~st.readable
       THEN [score |-> score, warning |-> "none", stat |-> TRUE, read |-> TRUE]
     ELSE [score |-> score + ContentScore(st.content), warning |-> "none",
           stat |-> TRUE, read |-> TRUE]

analyzeTestComplexity(testFile, st) == analyzeTestComplexityFull(testFile, st).score

(***************************************************************************)
(* The partitioning algorithms.                                            *)
(***************************************************************************)
\* variant: the array has one element too many
ArrayOfExtra(n, v) == [i \in 1..(n + 1) |-> v]

\* Array.from({ length: n }, () => v)
ArrayOf(n, v) == [i \in 1..n |-> v]

\* variant: the shards are filled from the last one down
RECURSIVE RoundRobinLoopDescending(_, _, _, _)
RoundRobinLoopDescending(testFiles, index, actualShards, shards) ==
  IF index >= Len(testFiles) THEN shards
  ELSE LET shardIndex == actualShards - 1 - (index % actualShards)
       IN RoundRobinLoopDescending(testFiles, index + 1, actualShards,
            [shards EXCEPT ![shardIndex + 1] = Append(@, testFiles[index + 1])])

\* testFiles.forEach((file, index) => shards[index % actualShards].push(file)),
\* from the 0-based index on
RECURSIVE RoundRobinLoop(_, _, _, _)
RoundRobinLoop(testFiles, index, actualShards, shards) ==
  IF index >= Len(testFiles) THEN shards
  ELSE LET shardIndex == index % actualShards
       IN RoundRobinLoop(testFiles, index + 1, actualShards,
            [shards EXCEPT ![shardIndex + 1] = Append(@, testFiles[index + 1])])

\* variant: the files are dealt out in contiguous blocks of ceil(n / shards)
shardByTestFileCountBlocks(testFiles, maxShards) ==
  LET totalFiles == Len(testFiles)
      actualShards == Min(maxShards, totalFiles)
      size == Ceil(totalFiles, actualShards)
  IN IF totalFiles = 0 THEN <<>>
     ELSE [s \in 1..actualShards |->
             SubSeq(testFiles, (s - 1) * size + 1, Min(s * size, totalFiles))]

\* variant: the loop starts at index 1 and loses the first file
shardByTestFileCountSkipFirst(testFiles, maxShards) ==
  LET totalFiles == Len(testFiles)
      actualShards == Min(maxShards, totalFiles)
  IN IF totalFiles = 0 THEN <<>>
     ELSE RoundRobinLoop(testFiles, 1, actualShards, ArrayOf(actualShards, <<>>))

shardByTestFileCount(testFiles, maxShards) ==
  LET totalFiles == Len(testFiles)
      actualShards == Min(maxShards, totalFiles)
  IN IF totalFiles = 0 THEN <<>>
     ELSE RoundRobinLoop(testFiles, 0, actualShards, ArrayOf(actualShards, <<>>))

\* insertion of one entry into a list sorted by descending score, after the
\* entries of equal score (Array.prototype.sort is stable)
RECURSIVE InsertByScore(_, _)
InsertByScore(sorted, w) ==
  IF sorted = <<>> THEN <<w>>
  ELSE IF Head(sorted).score - w.score < 0 THEN <<w>> \o sorted
  ELSE <<Head(sorted)>> \o InsertByScore(Tail(sorted), w)

\* weights.sort((a, b) => b.score - a.score)
RECURSIVE SortByScore(_)
SortByScore(weights) ==
  IF weights = <<>> THEN <<>>
  ELSE InsertByScore(SortByScore(SubSeq(weights, 1, Len(weights) - 1)),
                     weights[Len(weights)])

\* variant: the scan never moves on from the first shard
MinScoreScanStuck(shardScores, actualShards, i, minScore, minScoreIndex) == minScoreIndex

\* the scan for the shard of minimal score, from 0-based index i on
RECURSIVE MinScoreScan(_, _, _, _, _)
MinScoreScan(shardScores, actualShards, i, minScore, minScoreIndex) ==
  IF i >= actualShards THEN minScoreIndex
  ELSE IF shardScores[i + 1] < minScore
    THEN MinScoreScan(shardScores, actualShards, i + 1, shardScores[i + 1], i)
  ELSE MinScoreScan(shardScores, actualShards, i + 1, minScore, minScoreIndex)

\* variant: the comparison of the scan is inverted
RECURSIVE MaxScoreScan(_, _, _, _, _)
MaxScoreScan(shardScores, actualShards, i, minScore, minScoreIndex) ==
  IF i >= actualShards THEN minScoreIndex
  ELSE IF shardScores[i + 1] > minScore
    THEN MaxScoreScan(shardScores, actualShards, i + 1, shardScores[i + 1], i)
  ELSE MaxScoreScan(shardScores, actualShards, i + 1, minScore, minScoreIndex)

MinScoreIndexInverted(shardScores, actualShards) ==
  MaxScoreScan(shardScores, actualShards, 1, shardScores[1], 0)

MinScoreIndex(shardScores, actualShards) ==
  MinScoreScan(shardScores, actualShards, 1, shardScores[1], 0)

\* variant: the weight of the file is not added to the total of its shard
GreedyStepNoAccumulate(st, test, actualShards) ==
  LET minScoreIndex == MinScoreIndex(st.shardScores, actualShards)
  IN [shards |-> [st.shards EXCEPT ![minScoreIndex + 1] = Append(@, test.file)],
      shardScores |-> st.shardScores]

\* one iteration of `for (const test of weights)`
GreedyStep(st, test, actualShards) ==
  LET minScoreIndex == MinScoreIndex(st.shardScores, actualShards)
  IN [shards |-> [st.shards EXCEPT ![minScoreIndex + 1] = Append(@, test.file)],
      shardScores |-> [st.shardScores EXCEPT ![minScoreIndex + 1] = @ + test.score]]

\* the state of the loop after the first k entries of weights
RECURSIVE GreedyAfter(_, _, _)
GreedyAfter(weights, actualShards, k) ==
  IF k = 0 THEN [shards |-> ArrayOf(actualShards, <<>>),
                 shardScores |-> ArrayOf(actualShards, 0)]
  ELSE GreedyStep(GreedyAfter(weights, actualShards, k - 1), weights[k], actualShards)

\* variant: files that do not exist get no weight entry
RECURSIVE ComplexityWeightsSkipMissing(_, _)
ComplexityWeightsSkipMissing(testFiles, fileSystem) ==
  IF testFiles = <<>> THEN <<>>
  ELSE (IF fileSystem[Head(testFiles)].exists
        THEN <<[file |-> Head(testFiles),
                score |-> analyzeTestComplexity(Head(testFiles), fileSystem[Head(testFiles)])]>>
        ELSE <<>>) \o ComplexityWeightsSkipMissing(Tail(testFiles), fileSystem)

\* testFiles.map(file => ({ file, score: analyzeTestComplexity(file) }))
RECURSIVE ComplexityWeights(_, _)
ComplexityWeights(testFiles, fileSystem) ==
  IF testFiles = <<>> THEN <<>>
  ELSE <<[file |-> Head(testFiles),
          score |-> analyzeTestComplexity(Head(testFiles), fileSystem[Head(testFiles)])]>>
       \o ComplexityWeights(Tail(testFiles), fileSystem)

\* variant: one shard per requested shard, without Math.min
shardByComplexityNoMin(testFiles, maxShards, fileSystem) ==
  LET totalFiles == Len(testFiles)
      weights == SortByScore(ComplexityWeights(testFiles, fileSystem))
  IN IF totalFiles = 0 THEN <<>>
     ELSE GreedyAfter(weights, maxShards, Len(weights)).shards

shardByComplexity(testFiles, maxShards, fileSystem) ==
  LET totalFiles == Len(testFiles)
      actualShards == Min(maxShards, totalFiles)
      weights == SortByScore(ComplexityWeights(testFiles, fileSystem))
  IN IF totalFiles = 0 THEN <<>>
     ELSE GreedyAfter(weights, actualShards, Len(weights)).shards

(***************************************************************************)
(* calculateOptimalShards                                                  *)
(***************************************************************************)
\* variant: one shard for every five files above 20 files as well
calculateOptimalShardsFives(n) ==
  IF n = 0 THEN 1 ELSE Min(Ceil(n, 5), 10)

\* variant: one shard for every ten files, whatever the file count
calculateOptimalShardsTens(n) ==
  IF n = 0 THEN 1 ELSE Min(Ceil(n, 10), 10)

\* variant: the boundary 20 falls into the upper band
calculateOptimalShardsStrict(n) ==
  IF n = 0 THEN 1
  ELSE LET baseShards == IF n <= 5 THEN 1
                         ELSE IF n < 20 THEN Ceil(n, 5)
                         ELSE Ceil(n, 10)
       IN Min(baseShards, 10)

calculateOptimalShards(n) ==
  IF n = 0 THEN 1
  ELSE LET baseShards == IF n <= 5 THEN 1
                         ELSE IF n <= 20 THEN Ceil(n, 5)
                         ELSE Ceil(n, 10)
       IN Min(baseShards, 10)

(***************************************************************************)
(* discoverTestFiles and testFileToSbtCommand                              *)
(***************************************************************************)
\* str.length in characters
RECURSIVE StrLength(_)
StrLength(str) == IF str = <<>> THEN 0 ELSE CharLen(Head(str)) + StrLength(Tail(str))

\* the files a glob returned, filtered and sorted
discoverTestFiles(globbed, projectPath) ==
  IF projectPath # <<>> /\ ~isValidPath(projectPath, cwd) THEN <<>>
  ELSE SortedSeq({file \in globbed :
         /\ isValidPath(file, cwd)
         /\ projectPath # <<>> =>
              LET filePath == resolve2(cwd, file)
                  projectResolved == resolve2(cwd, projectPath)
                  relativePath == relative(projectResolved, filePath)
              IN ~StartsWithDotDot(relativePath) /\ ~HasDotDot(relativePath)})

\* the 1-based position of the first occurrence of pat in str, 0 when none
IndexOfSub(str, pat) ==
  LET hits == {i \in 1..(Len(str) - Len(pat) + 1) : SubSeq(str, i, i + Len(pat) - 1) = pat}
  IN IF hits = {} THEN 0 ELSE CHOOSE i \in hits : \A j \in hits : i <= j

testDirPatterns ==
  << <<"src", "/", "test", "/", "scala", "/">>, <<"src", "/", "test", "/">>,
     <<"test", "/", "scala", "/">>, <<"test", "/">> >>

\* tokens with a character outside [a-zA-Z0-9_.$]
HasInvalidClassChar(tok) ==
  tok \in {"/", " ", "-", "@Container", "@Integration", "test(", "test (", "it(", "describe("}

isValidClassName(className) ==
  /\ \A i \in DOMAIN className : ~HasInvalidClassChar(className[i])
  /\ StrLength(className) <= 512

\* the command of one test file; the empty string when there is none
testFileToSbtCommand(testFile) ==
  LET matching == {k \in DOMAIN testDirPatterns : IndexOfSub(testFile, testDirPatterns[k]) > 0}
  IN IF matching = {} THEN <<>>
     ELSE LET k == CHOOSE m \in matching : \A o \in matching : m <= o
              pat == testDirPatterns[k]
              relativePath == SubSeq(testFile, IndexOfSub(testFile, pat) + Len(pat), Len(testFile))
              stripped == IF relativePath # <<>> /\ relativePath[Len(relativePath)] = ".scala"
                          THEN SubSeq(relativePath, 1, Len(relativePath) - 1)
                          ELSE relativePath
              testClass == [i \in DOMAIN stripped |-> IF stripped[i] = "/" THEN "." ELSE stripped[i]]
          IN IF testClass = <<>> \/ ~isValidClassName(testClass) THEN <<>>
             ELSE <<"testOnly ">> \o testClass

\* Array.prototype.map / filter on sequences
RECURSIVE MapCommands(_)
MapCommands(files) ==
  IF files = <<>> THEN <<>>
  ELSE <<testFileToSbtCommand(Head(files))>> \o MapCommands(Tail(files))

RECURSIVE FilterNonEmpty(_)
FilterNonEmpty(strs) ==
  IF strs = <<>> THEN <<>>
  ELSE (IF Len(Head(strs)) > 0 THEN <<Head(strs)>> ELSE <<>>) \o FilterNonEmpty(Tail(strs))

\* variant: the last element of the array is left out
JSONstringifyTruncated(nums) ==
  <<"[">> \o join([i \in 1..(Len(nums) - 1) |-> toString(nums[i])], ",") \o <<"]">>

\* JSON.stringify of an array of integers
JSONstringify(nums) ==
  <<"[">> \o join([i \in DOMAIN nums |-> toString(nums[i])], ",") \o <<"]">>

(***************************************************************************)
(* State.                                                                  *)
(***************************************************************************)
VARIABLES
  pc,             \* position in run, or the function that was called
  input,          \* the action inputs (core.getInput)
  fs,             \* the state of every file of the workspace
  testFiles,      \* the discovered test files
  currentShard,   \* the parsed shard-number
  maxShards,      \* the requested shard count
  algorithm,      \* the algorithm name in use
  shards,         \* the shard assignment
  outputs,        \* core.setOutput: name -> value
  exported,       \* core.exportVariable: name -> value
  failed,         \* core.setFailed: the messages
  warnings,       \* core.warning: the messages
  testFileCount,  \* the argument of calculateOptimalShards
  optimalShards,  \* the result of calculateOptimalShards
  analysis,       \* the result and the effects of analyzeTestComplexity
  historicalData, \* the historical execution times, when there are any
  testWeights     \* the weight resolved for every test file

vars == <<pc, input, fs, testFiles, currentShard, maxShards, algorithm, shards,
          outputs, exported, failed, warnings, testFileCount, optimalShards, analysis,
          historicalData, testWeights>>

\* the file-system states considered: every file in the same state, and
\* the states dealt out to the files in turn with stride 1 and 2
FileStateList == <<MissingFile, UnreadableFile, OversizedFile, PlainFile, RichFile>>

FileSystems ==
  {[f \in AllFiles |-> FileStateList[((PathIndex(f) * a + b) % Len(FileStateList)) + 1]] :
     a \in 0..2, b \in 0..(Len(FileStateList) - 1)}

\* no file has been looked at yet
NoFileSystem == [f \in {} |-> MissingFile]

NoInput == [x \in {} |-> <<>>]

\* historicalData is null
NoHistoricalData == [present |-> FALSE, entries |-> [f \in {} |-> 0]]

\* analyzeTestComplexity has not been called
NoAnalysis == [score |-> 0, warning |-> "none", stat |-> FALSE, read |-> FALSE]

NoOutput == [x \in {} |-> <<>>]

(***************************************************************************)
(* Direct calls of the partitioning functions.                             *)
(***************************************************************************)
InitShard ==
  /\ pc = "call"
  /\ testFiles \in InjectiveSeqs(AllFiles, NumFiles)
  /\ maxShards \in 1..MaxShards
  /\ fs \in FileSystems
  /\ input = NoInput
  /\ currentShard = 0
  /\ algorithm = ""
  /\ shards = <<>>
  /\ outputs = NoOutput
  /\ exported = NoOutput
  /\ failed = <<>>
  /\ warnings = <<>>
  /\ testFileCount = 0
  /\ optimalShards = 0
  /\ analysis = NoAnalysis
  /\ historicalData = NoHistoricalData
  /\ testWeights = <<>>

CallShardByTestFileCount ==
  /\ pc = "call"
  /\ shards' = shardByTestFileCount(testFiles, maxShards)
  /\ pc' = "shardByTestFileCount"
  /\ UNCHANGED <<analysis, historicalData, testWeights, input, fs, testFiles, currentShard, maxShards, algorithm, outputs,
                 exported, failed, warnings, testFileCount, optimalShards>>

CallShardByComplexity ==
  /\ pc = "call"
  /\ shards' = shardByComplexity(testFiles, maxShards, fs)
  /\ pc' = "shardByComplexity"
  /\ UNCHANGED <<analysis, historicalData, testWeights, input, fs, testFiles, currentShard, maxShards, algorithm, outputs,
                 exported, failed, warnings, testFileCount, optimalShards>>

NextShard == CallShardByTestFileCount \/ CallShardByComplexity

SpecShard == InitShard /\ [][NextShard]_vars

(***************************************************************************)
(* Direct calls of calculateOptimalShards.                                 *)
(***************************************************************************)
InitOptimal ==
  /\ pc = "call"
  /\ testFileCount \in 0..MaxFileCount
  /\ optimalShards = 0
  /\ analysis = NoAnalysis
  /\ historicalData = NoHistoricalData
  /\ testWeights = <<>>
  /\ testFiles = <<>>
  /\ maxShards = 0
  /\ fs = NoFileSystem
  /\ input = NoInput
  /\ currentShard = 0
  /\ algorithm = ""
  /\ shards = <<>>
  /\ outputs = NoOutput
  /\ exported = NoOutput
  /\ failed = <<>>
  /\ warnings = <<>>

CallCalculateOptimalShards ==
  /\ pc = "call"
  /\ optimalShards' = calculateOptimalShards(testFileCount)
  /\ pc' = "calculateOptimalShards"
  /\ UNCHANGED <<analysis, historicalData, testWeights, input, fs, testFiles, currentShard, maxShards, algorithm, shards,
                 outputs, exported, failed, warnings, testFileCount>>

NextOptimal == CallCalculateOptimalShards

SpecOptimal == InitOptimal /\ [][NextOptimal]_vars

(***************************************************************************)
(* run                                                                     *)
(***************************************************************************)
\* a string of more than 512 characters
LongSegment == "aaaaaaaaaaaaaaaaaaaaaaaaaaaaaaaaaaaaaaaaaaaaaaaaaaaaaaaaaaaaaaaa"

LongPath == [i \in 1..9 |-> LongSegment]

ProjectPathInputs == {<<>>, <<"src">>, <<"..">>, LongPath}

NumericInputs == {toString(n) : n \in (0 - 1)..(MaxShards + 1)} \cup {toString(100), toString(101)}

JunkInputs == {<<"a", "b", "c">>, <<"2", "x">>, <<" ", "2">>}

MaxShardsInputs == {<<>>} \cup NumericInputs \cup JunkInputs

ShardNumberInputs == {<<>>, <<"a">>} \cup {toString(n) : n \in 0..(MaxShards + 1)}

AlgorithmInputs ==
  {<<>>, <<"round-robin">>, <<"complexity">>, <<"test-file-count">>, <<"unknown-algorithm">>}

Inputs ==
  {("project-path" :> pp) @@ ("shard-number" :> sn) @@ ("max-shards" :> ms)
     @@ ("algorithm" :> al) :
     pp \in ProjectPathInputs, sn \in ShardNumberInputs, ms \in MaxShardsInputs,
     al \in AlgorithmInputs}

\* core.getInput(name) || dflt
getInputOr(name, dflt) == IF input[name] = <<>> THEN dflt ELSE input[name]

\* the warnings analyzeTestComplexity emits for a list of files
RECURSIVE AnalysisWarnings(_, _)
AnalysisWarnings(files, fileSystem) ==
  IF files = <<>> THEN <<>>
  ELSE LET w == analyzeTestComplexityFull(Head(files), fileSystem[Head(files)]).warning
           rest == AnalysisWarnings(Tail(files), fileSystem)
       IN CASE w = "path-traversal" ->
                 <<(<<"Invalid file path detected (possible path traversal): ">>
                    \o Head(files))>> \o rest
            [] w = "too-large" ->
                 <<(<<"File too large for complexity analysis: ">> \o Head(files))>> \o rest
            [] OTHER -> rest

\* the warnings testFileToSbtCommand emits for a list of files
RECURSIVE CommandWarnings(_)
CommandWarnings(files) ==
  IF files = <<>> THEN <<>>
  ELSE (IF testFileToSbtCommand(Head(files)) = <<>>
        THEN <<(<<"Could not convert test file path to class name: ">> \o Head(files))>>
        ELSE <<>>) \o CommandWarnings(Tail(files))

\* catch (error) { core.setFailed(errorMessage) }
Fail(message) ==
  /\ failed' = Append(failed, message)
  /\ pc' = "failed"

Init ==
  /\ pc = "start"
  /\ input \in Inputs
  /\ fs = NoFileSystem
  /\ testFiles = <<>>
  /\ currentShard = 0
  /\ maxShards = 0
  /\ algorithm = <<>>
  /\ shards = <<>>
  /\ outputs = NoOutput
  /\ exported = NoOutput
  /\ failed = <<>>
  /\ warnings = <<>>
  /\ testFileCount = 0
  /\ optimalShards = 0
  /\ analysis = NoAnalysis
  /\ historicalData = NoHistoricalData
  /\ testWeights = <<>>

\* the inputs are read and project-path is validated
ReadInputs ==
  /\ pc = "start"
  /\ algorithm' = getInputOr("algorithm", <<"round-robin">>)
  /\ LET projectPathInput == input["project-path"]
     IN IF projectPathInput # <<>> /\ StrLength(projectPathInput) > 512
          THEN Fail(<<"Project-path too long">>)
        ELSE IF projectPathInput # <<>> /\ ~isValidPath(projectPathInput, cwd)
          THEN Fail(<<"Invalid project-path">>)
        ELSE pc' = "shardNumber" /\ UNCHANGED failed
  /\ UNCHANGED <<analysis, historicalData, testWeights, input, fs, testFiles, currentShard, maxShards, shards, outputs,
                 exported, warnings, testFileCount, optimalShards>>

\* shard-number is parsed and validated
ParseShardNumber ==
  /\ pc = "shardNumber"
  /\ LET parsed == parseInt(getInputOr("shard-number", <<"1">>))
     IN IF isNaN(parsed) \/ parsed.value < 1
          THEN Fail(<<"shard-number must be a positive integer">>) /\ UNCHANGED currentShard
        ELSE currentShard' = parsed.value /\ pc' = "discover" /\ UNCHANGED failed
  /\ UNCHANGED <<analysis, historicalData, testWeights, input, fs, testFiles, maxShards, algorithm, shards, outputs,
                 exported, warnings, testFileCount, optimalShards>>

\* await discoverTestFiles(testPattern, projectPath): the glob returns any
\* set of paths of the workspace
Discover ==
  /\ pc = "discover"
  /\ \E globbed \in SUBSET AllFiles :
        testFiles' = discoverTestFiles(globbed, input["project-path"])
  /\ pc' = "maxShards"
  /\ UNCHANGED <<analysis, historicalData, testWeights, input, fs, currentShard, maxShards, algorithm, shards, outputs,
                 exported, failed, warnings, testFileCount, optimalShards>>

\* variant: no upper limit on max-shards
MaxShardsErrorNoCeiling(maxShardsInput) ==
  LET parsed == parseInt(maxShardsInput)
  IN IF maxShardsInput = <<>> THEN <<"max-shards is required">>
     ELSE IF isNaN(parsed) \/ parsed.value < 1
       THEN <<"max-shards must be a positive integer">>
     ELSE <<>>

\* the checks of max-shards: the message of the error thrown, <<>> when none
MaxShardsError(maxShardsInput) ==
  LET parsed == parseInt(maxShardsInput)
  IN IF maxShardsInput = <<>> THEN <<"max-shards is required">>
     ELSE IF isNaN(parsed) \/ parsed.value < 1
       THEN <<"max-shards must be a positive integer">>
     ELSE IF parsed.value > 100 THEN <<"max-shards cannot exceed 100">>
     ELSE <<>>

\* max-shards is parsed and validated
ValidateMaxShards ==
  /\ pc = "maxShards"
  /\ LET maxShardsInput == input["max-shards"]
     IN IF MaxShardsError(maxShardsInput) # <<>>
          THEN Fail(MaxShardsError(maxShardsInput)) /\ UNCHANGED maxShards
        ELSE /\ maxShards' = parseInt(maxShardsInput).value
             /\ pc' = "plan"
             /\ UNCHANGED failed
  /\ UNCHANGED <<analysis, historicalData, testWeights, input, fs, testFiles, currentShard, algorithm, shards, outputs,
                 exported, warnings, testFileCount, optimalShards>>

\* variant: the empty file list is not short-circuited
NoFilesFoundNever(files) == FALSE

\* testFiles.length === 0
NoFilesFound(files) == Len(files) = 0

\* if (testFiles.length === 0) { ...; return; }
NoTestFiles ==
  /\ pc = "plan"
  /\ NoFilesFound(testFiles)
  /\ warnings' = Append(warnings,
        <<"No test files found. This may indicate a misconfigured test-pattern.">>)
  /\ outputs' = ("total-shards" :> toString(1)) @@ ("test-files" :> <<>>)
                 @@ ("test-commands" :> <<>>) @@ ("shard-matrix" :> JSONstringify(<<1>>))
                 @@ outputs
  /\ pc' = "done"
  /\ UNCHANGED <<analysis, historicalData, testWeights, input, fs, testFiles, currentShard, maxShards, algorithm, shards,
                 exported, failed, testFileCount, optimalShards>>

\* variant: an unknown name falls back to round-robin
switchAlgorithmFallback(name, files, requested, fileSystem) ==
  IF name = <<"complexity">>
    THEN LET result == shardByComplexity(files, requested, fileSystem)
         IN [known |-> TRUE, shards |-> result,
             warnings |-> AnalysisWarnings(files, fileSystem)
                          \o AnalysisWarnings(Flatten(result), fileSystem)]
  ELSE [known |-> TRUE, shards |-> shardByTestFileCount(files, requested),
        warnings |-> <<>>]

\* switch (algorithm): the shards and the warnings of the algorithm, or
\* known = FALSE in the default case
switchAlgorithm(name, files, requested, fileSystem) ==
  CASE name = <<"round-robin">> ->
         [known |-> TRUE, shards |-> shardByTestFileCount(files, requested),
          warnings |-> <<>>]
    [] name = <<"complexity">> ->
         LET result == shardByComplexity(files, requested, fileSystem)
         IN [known |-> TRUE, shards |-> result,
             warnings |-> AnalysisWarnings(files, fileSystem)
                          \o AnalysisWarnings(Flatten(result), fileSystem)]
    [] OTHER -> [known |-> FALSE, shards |-> <<>>, warnings |-> <<>>]

\* variant: total-shards is set before the algorithm name is looked at
SelectAlgorithmOutputFirst ==
  /\ pc = "plan"
  /\ ~NoFilesFound(testFiles)
  /\ outputs' = ("total-shards" :> toString(Min(maxShards, Len(testFiles)))) @@ outputs
  /\ \E fileSystem \in (IF algorithm = <<"complexity">> THEN FileSystems ELSE {fs}) :
        LET plan == switchAlgorithm(algorithm, testFiles, maxShards, fileSystem)
        IN IF plan.known
             THEN /\ shards' = plan.shards
                  /\ fs' = fileSystem
                  /\ warnings' = warnings \o plan.warnings
                  /\ pc' = "report"
                  /\ UNCHANGED failed
           ELSE /\ Fail(<<"Unknown algorithm: ">> \o algorithm)
                /\ UNCHANGED <<shards, warnings, fs>>
  /\ UNCHANGED <<analysis, historicalData, testWeights, input, testFiles, currentShard, maxShards, algorithm,
                 exported, testFileCount, optimalShards>>

\* the shards are planned; statSync / readFileSync find the files in any state
SelectAlgorithm ==
  /\ pc = "plan"
  /\ ~NoFilesFound(testFiles)
  /\ \E fileSystem \in (IF algorithm = <<"complexity">> THEN FileSystems ELSE {fs}) :
        LET plan == switchAlgorithm(algorithm, testFiles, maxShards, fileSystem)
        IN IF plan.known
             THEN /\ shards' = plan.shards
                  /\ fs' = fileSystem
                  /\ warnings' = warnings \o plan.warnings
                  /\ pc' = "report"
                  /\ UNCHANGED failed
           ELSE /\ Fail(<<"Unknown algorithm: ">> \o algorithm)
                /\ UNCHANGED <<shards, warnings, fs>>
  /\ UNCHANGED <<analysis, historicalData, testWeights, input, testFiles, currentShard, maxShards, algorithm, outputs,
                 exported, testFileCount, optimalShards>>

\* variant: the shard index is not clamped to the last shard
CurrentShardFilesNoClamp(allShards, current) ==
  IF current \in DOMAIN allShards THEN allShards[current] ELSE <<>>

\* variant: the shard index is one too high, Math.min(currentShard, totalShards)
CurrentShardFilesOffByOne(allShards, current) ==
  LET totalShards == Len(allShards)
      shardIndex == Min(current, totalShards)
  IN IF shardIndex + 1 \in DOMAIN allShards THEN allShards[shardIndex + 1] ELSE <<>>

\* variant: every shard number selects the first shard
CurrentShardFilesAlwaysFirst(allShards, current) ==
  IF 1 \in DOMAIN allShards THEN allShards[1] ELSE <<>>

\* the files of the current shard: shards[shardIndex] || []
CurrentShardFiles(allShards, current) ==
  LET totalShards == Len(allShards)
      shardIndex == Min(current - 1, totalShards - 1)
  IN IF shardIndex + 1 \in DOMAIN allShards THEN allShards[shardIndex + 1] ELSE <<>>

\* the current shard is selected and reported
ReportShard ==
  /\ pc = "report"
  /\ LET totalShards == Len(shards)
         currentShardFiles == CurrentShardFiles(shards, currentShard)
         testCommands == FilterNonEmpty(MapCommands(currentShardFiles))
         finalCommands == join(testCommands, " ")
     IN /\ outputs' = ("total-shards" :> toString(totalShards))
                       @@ ("test-files" :> join(currentShardFiles, ","))
                       @@ ("shard-matrix" :> JSONstringify([i \in 1..totalShards |-> i]))
                       @@ ("test-commands" :> finalCommands) @@ outputs
        /\ exported' = IF Len(currentShardFiles) > 0
                         THEN ("SBT_TEST_FILES" :> join(currentShardFiles, ","))
                              @@ ("SBT_TEST_COMMANDS" :> join(testCommands, " ")) @@ exported
                         ELSE ("SBT_TEST_FILES" :> <<>>) @@ ("SBT_TEST_COMMANDS" :> <<>>)
                              @@ exported
        /\ warnings' = warnings
             \o (IF Len(currentShardFiles) = 0
                 THEN <<(<<"Shard ">> \o toString(currentShard)
                         \o <<" has no test files assigned">>)>>
                 ELSE <<>>)
             \o CommandWarnings(currentShardFiles)
             \o (IF finalCommands = <<>>
                 THEN <<(<<"No valid test commands generated for this shard">>)>>
                 ELSE <<>>)
  /\ pc' = "done"
  /\ UNCHANGED <<analysis, historicalData, testWeights, input, fs, testFiles, currentShard, maxShards, algorithm, shards,
                 failed, testFileCount, optimalShards>>

Next ==
  \/ ReadInputs
  \/ ParseShardNumber
  \/ Discover
  \/ ValidateMaxShards
  \/ NoTestFiles
  \/ SelectAlgorithm
  \/ ReportShard

Spec == Init /\ [][Next]_vars

(***************************************************************************)
(* Direct calls of analyzeTestComplexity.                                  *)
(***************************************************************************)
\* the paths passed to analyzeTestComplexity: those of the workspace, and
\* relative and absolute paths inside and outside the working directory
AnalyzePaths ==
  Range(PathTable) \cup
  { <<"/", "etc", "/", "passwd">>,
    <<"/", "work", "/", "src", "/", "test", "/", "scala", "/", "UnitTest", ".scala">>,
    <<"/", "work", "/", "..", "/", "etc", "/", "IntegrationTest", ".scala">>,
    <<"src", "/", "test", "/", "..", "/", "..", "/", "..", "/", "etc", "/", "Container", ".scala">>,
    <<".", "/", "src", "/", "test", "/", "scala", "/", "SimpleTest", ".scala">>,
    <<"src", "/", "test", "/", "scala", "/", "a..b", "/", "PropertyTest", ".scala">>,
    <<"src", "/", "test", "/", "scala", "/", "unit", "/", "PropertyTest", ".scala">>,
    <<"src", "/", "test", "/", "scala", "/", "integration", "/", "UnitTest", ".scala">>,
    <<"src", "/", "test", "/", "scala", "/", "e2e", "/", "unit", "/", "PropertyTest", ".scala">>,
    <<"src", "/", "test", "/", "scala", "/", "endtoend", "/", "PropTest", ".scala">> }

\* the states statSync / readFileSync find the file in
AnalyzeFileStates ==
  Range(FileStateList) \cup {BoundaryFile, JustOversizedFile, UnreadableOversizedFile}
  \cup {PropertyOnlyFile, FullFile}
  \cup {Tests10File, Tests11File, Tests20File, Tests21File, Size5000File, Size5001File}

InitAnalyze ==
  /\ pc = "call"
  /\ \E path \in AnalyzePaths, st \in AnalyzeFileStates :
        testFiles = <<path>> /\ fs = (path :> st)
  /\ analysis = NoAnalysis
  /\ historicalData = NoHistoricalData
  /\ testWeights = <<>>
  /\ maxShards = 0
  /\ input = NoInput
  /\ currentShard = 0
  /\ algorithm = ""
  /\ shards = <<>>
  /\ outputs = NoOutput
  /\ exported = NoOutput
  /\ failed = <<>>
  /\ warnings = <<>>
  /\ testFileCount = 0
  /\ optimalShards = 0

CallAnalyzeTestComplexity ==
  /\ pc = "call"
  /\ analysis' = analyzeTestComplexityFull(testFiles[1], fs[testFiles[1]])
  /\ warnings' = warnings \o AnalysisWarnings(testFiles, fs)
  /\ pc' = "analyzeTestComplexity"
  /\ UNCHANGED <<historicalData, testWeights, input, fs, testFiles, currentShard, maxShards, algorithm, shards,
                 outputs, exported, failed, testFileCount, optimalShards>>

NextAnalyze == CallAnalyzeTestComplexity

SpecAnalyze == InitAnalyze /\ [][NextAnalyze]_vars

(***************************************************************************)
(* The historical weight of a test file (Historical Weight Resolver).      *)
(***************************************************************************)
\* variant: the historical data are never consulted
getTestWeightIgnoreHistory(testFile, historical, complexityScore) == complexityScore

\* the recorded value when there is one, the complexity score otherwise
getTestWeight(testFile, historical, complexityScore) ==
  IF historical.present /\ testFile \in DOMAIN historical.entries
    THEN historical.entries[testFile]
  ELSE complexityScore

\* the recorded execution times considered
HistoricalSeconds == {50, 100}

\* historicalData: null, or a map from some of the files to recorded times
HistoricalDataInputs ==
  {NoHistoricalData} \cup
  {[present |-> TRUE, entries |-> e] :
     e \in UNION {[S -> HistoricalSeconds] : S \in SUBSET AllFiles}}

InitWeight ==
  /\ pc = "call"
  /\ \E n \in 1..Cardinality(AllFiles) :
        testFiles = SubSeq(SortedSeq(AllFiles), 1, n)
  /\ historicalData \in HistoricalDataInputs
  /\ fs \in FileSystems
  /\ testWeights = <<>>
  /\ analysis = NoAnalysis
  /\ maxShards = 0
  /\ input = NoInput
  /\ currentShard = 0
  /\ algorithm = ""
  /\ shards = <<>>
  /\ outputs = NoOutput
  /\ exported = NoOutput
  /\ failed = <<>>
  /\ warnings = <<>>
  /\ testFileCount = 0
  /\ optimalShards = 0

\* the weight of every file of one partitioning run is resolved
ResolveWeights ==
  /\ pc = "call"
  /\ testWeights' = [i \in DOMAIN testFiles |->
                   getTestWeight(testFiles[i], historicalData,
                                 analyzeTestComplexity(testFiles[i], fs[testFiles[i]]))]
  /\ pc' = "getTestWeight"
  /\ UNCHANGED <<analysis, historicalData, input, fs, testFiles, currentShard, maxShards,
                 algorithm, shards, outputs, exported, failed, warnings, testFileCount,
                 optimalShards>>

NextWeight == ResolveWeights

SpecWeight == InitWeight /\ [][NextWeight]_vars

(***************************************************************************)
(* run, auto-shard version (index.ts lines 1-330).  Its functions carry    *)
(* the suffix Auto where a later version of index.ts has the same name.    *)
(***************************************************************************)
\* the paths a glob can return: PathTable, then plain suites, in lexical order
AutoPathTable ==
  PathTable \o
  [i \in 1..(MaxAutoFiles - Len(PathTable)) |->
     <<"src", "/", "test", "/", "scala", "/", "suite", "/", "Suite",
       Digits[(i \div 10) + 1], Digits[(i % 10) + 1], "Test", ".scala">>]

AutoFiles == Range(AutoPathTable)

AutoPathIndex(file) == CHOOSE i \in 1..Len(AutoPathTable) : AutoPathTable[i] = file

\* the paths of a set from place i of AutoPathTable on, in its order
RECURSIVE SortedFrom(_, _)
SortedFrom(globbed, i) ==
  IF i > Len(AutoPathTable) THEN <<>>
  ELSE (IF AutoPathTable[i] \in globbed THEN <<AutoPathTable[i]>> ELSE <<>>)
       \o SortedFrom(globbed, i + 1)

\* Array.from(testFiles).sort()
discoverTestFilesAuto(globbed) == SortedFrom(globbed, 1)

\* the sets of paths the glob returns: the first n paths for n up to 6 and
\* around every multiple of 5, and every set of the first three paths
AutoGlobResults ==
  {{AutoPathTable[i] : i \in 1..n} :
     n \in {m \in 0..Len(AutoPathTable) : m <= 6 \/ m % 5 \in {0, 1} \/ m = Len(AutoPathTable)}}
  \cup SUBSET {AutoPathTable[i] : i \in 1..3}

\* testFileToSbtCommand without the class-name check
testFileToSbtCommandAuto(testFile) ==
  LET matching == {k \in DOMAIN testDirPatterns : IndexOfSub(testFile, testDirPatterns[k]) > 0}
  IN IF matching = {} THEN <<>>
     ELSE LET k == CHOOSE m \in matching : \A o \in matching : m <= o
              pat == testDirPatterns[k]
              relativePath == SubSeq(testFile, IndexOfSub(testFile, pat) + Len(pat), Len(testFile))
              stripped == IF relativePath # <<>> /\ relativePath[Len(relativePath)] = ".scala"
                          THEN SubSeq(relativePath, 1, Len(relativePath) - 1)
                          ELSE relativePath
              testClass == [i \in DOMAIN stripped |-> IF stripped[i] = "/" THEN "." ELSE stripped[i]]
          IN IF testClass = <<>> THEN <<>> ELSE <<"testOnly ">> \o testClass

\* currentShardFiles.map(testFileToSbtCommand)
MapCommandsAuto(files) == [i \in DOMAIN files |-> testFileToSbtCommandAuto(files[i])]

RECURSIVE CommandWarningsAuto(_)
CommandWarningsAuto(files) ==
  IF files = <<>> THEN <<>>
  ELSE (IF testFileToSbtCommandAuto(Head(files)) = <<>>
        THEN <<(<<"Could not convert test file path to class name: ">> \o Head(files))>>
        ELSE <<>>) \o CommandWarningsAuto(Tail(files))

\* analyzeTestComplexity without containment check and size guard: the file
\* is read, and a failed read is reported
analyzeTestComplexityAutoFull(testFile, st) ==
  LET score == PathScore(testFile)
  IN IF st.exists /\ st.readable
       THEN [score |-> score + ContentScore(st.content), warning |-> "none"]
     ELSE [score |-> score, warning |-> "could-not-read"]

analyzeTestComplexityAuto(testFile, st) == analyzeTestComplexityAutoFull(testFile, st).score

RECURSIVE AnalysisWarningsAuto(_, _)
AnalysisWarningsAuto(files, fileSystem) ==
  IF files = <<>> THEN <<>>
  ELSE (IF analyzeTestComplexityAutoFull(Head(files), fileSystem[Head(files)]).warning
           = "could-not-read"
        THEN <<(<<"Could not read test file for complexity analysis: ">> \o Head(files))>>
        ELSE <<>>) \o AnalysisWarningsAuto(Tail(files), fileSystem)

RECURSIVE ComplexityWeightsAuto(_, _)
ComplexityWeightsAuto(files, fileSystem) ==
  IF files = <<>> THEN <<>>
  ELSE <<[file |-> Head(files),
          score |-> analyzeTestComplexityAuto(Head(files), fileSystem[Head(files)])]>>
       \o ComplexityWeightsAuto(Tail(files), fileSystem)

shardByComplexityAuto(files, requested, fileSystem) ==
  LET totalFiles == Len(files)
      actualShards == Min(requested, totalFiles)
      weights == SortByScore(ComplexityWeightsAuto(files, fileSystem))
  IN IF totalFiles = 0 THEN <<>>
     ELSE GreedyAfter(weights, actualShards, Len(weights)).shards

\* the states statSync / readFileSync find the files in
AutoFileSystems ==
  {[f \in AutoFiles |-> FileStateList[((AutoPathIndex(f) + b) % Len(FileStateList)) + 1]] :
     b \in 0..(Len(FileStateList) - 1)}

\* process.env without GITHUB_SHARD
ProcessEnv == ("JAVA_OPTS" :> <<"-Xmx2G">>)

\* the pairs of shard-number and GITHUB_SHARD considered
AutoShardNumbers ==
  {<< <<>>, <<>> >>, <<toString(2), <<>> >>, << <<>>, toString(MaxShards)>>,
   << <<"a">>, toString(MaxShards)>>}

AutoInputs ==
  {("auto-shard" :> as) @@ ("max-shards" :> ms) @@ ("algorithm" :> al)
     @@ ("shard-number" :> sn[1]) @@ ("GITHUB_SHARD" :> sn[2]) @@ ("test-env-vars" :> ev) :
     as \in {<<"true">>, <<"false">>},
     ms \in {<<>>, toString(0), toString(MaxShards), <<"a", "b", "c">>},
     al \in {<<>>, <<"complexity">>, <<"round-robin">>},
     sn \in AutoShardNumbers,
     ev \in {<<>>, <<"JAVA_OPTS", ",", " ", "SCALA_ENV">>}}

\* core.getBooleanInput(name)
getBooleanInput(name) == input[name] = <<"true">>

\* String.prototype.split(sep) for a one-token separator
RECURSIVE split(_, _, _)
split(str, sep, cur) ==
  IF str = <<>> THEN <<cur>>
  ELSE IF Head(str) = sep THEN <<cur>> \o split(Tail(str), sep, <<>>)
  ELSE split(Tail(str), sep, Append(cur, Head(str)))

\* String.prototype.trim
RECURSIVE trim(_)
trim(str) ==
  IF str # <<>> /\ Head(str) = " " THEN trim(Tail(str))
  ELSE IF str # <<>> /\ str[Len(str)] = " " THEN trim(SubSeq(str, 1, Len(str) - 1))
  ELSE str

\* process.env[varName], the empty string when it is not set
envValue(varName) ==
  IF Len(varName) = 1 /\ varName[1] \in DOMAIN ProcessEnv THEN ProcessEnv[varName[1]]
  ELSE IF varName = <<"GITHUB_SHARD">> THEN input["GITHUB_SHARD"]
  ELSE <<>>

\* the assignments NAME=value of the variables of test-env-vars that are set
RECURSIVE envAssignments(_)
envAssignments(envVarList) ==
  IF envVarList = <<>> THEN <<>>
  ELSE (IF envValue(Head(envVarList)) # <<>>
        THEN <<Head(envVarList) \o <<"=">> \o envValue(Head(envVarList))>>
        ELSE <<>>) \o envAssignments(Tail(envVarList))

\* test-commands: the commands, after the environment assignments if any
finalCommandsAuto(testCommands, testEnvVars) ==
  LET parts == split(testEnvVars, ",", <<>>)
      envVarList == FilterNonEmpty([i \in DOMAIN parts |-> trim(parts[i])])
      envVars == envAssignments(envVarList)
  IN IF testEnvVars # <<>> /\ Len(envVars) > 0
       THEN join(envVars, " ") \o <<" ">> \o join(testCommands, " ")
     ELSE join(testCommands, " ")

\* Number.prototype.toString, NaN included
numberToString(v) == IF isNaN(v) THEN <<"NaN">> ELSE toString(v.value)

InitAuto ==
  /\ pc = "start"
  /\ input \in AutoInputs
  /\ fs = NoFileSystem
  /\ testFiles = <<>>
  /\ currentShard = NaN
  /\ maxShards = 0
  /\ algorithm = <<>>
  /\ shards = <<>>
  /\ outputs = NoOutput
  /\ exported = NoOutput
  /\ failed = <<>>
  /\ warnings = <<>>
  /\ testFileCount = 0
  /\ optimalShards = 0
  /\ analysis = NoAnalysis
  /\ historicalData = NoHistoricalData
  /\ testWeights = <<>>

\* the inputs are read; shard-number falls back to GITHUB_SHARD and to 1
ReadInputsAuto ==
  /\ pc = "start"
  /\ algorithm' = getInputOr("algorithm", <<"test-file-count">>)
  /\ currentShard' = parseInt(getInputOr("shard-number", getInputOr("GITHUB_SHARD", <<"1">>)))
  /\ pc' = "discover"
  /\ UNCHANGED <<analysis, historicalData, testWeights, input, fs, testFiles, maxShards, shards, outputs, exported, failed,
                 warnings, testFileCount, optimalShards>>

\* await discoverTestFiles(testPattern)
DiscoverAuto ==
  /\ pc = "discover"
  /\ \E globbed \in AutoGlobResults : testFiles' = discoverTestFilesAuto(globbed)
  /\ pc' = "maxShards"
  /\ UNCHANGED <<analysis, historicalData, testWeights, input, fs, currentShard, maxShards, algorithm, shards, outputs,
                 exported, failed, warnings, testFileCount, optimalShards>>

\* variant: a configured max-shards takes precedence over auto-shard
resolveMaxShardsExplicitFirst(autoShard, maxShardsInput, totalFiles) ==
  LET parsed == parseInt(maxShardsInput)
  IN IF autoShard /\ maxShardsInput = <<>>
       THEN [error |-> <<>>, value |-> calculateOptimalShards(totalFiles)]
     ELSE IF isNaN(parsed) \/ parsed.value < 1
       THEN [error |-> <<"max-shards must be a positive integer">>, value |-> 0]
     ELSE [error |-> <<>>, value |-> parsed.value]

\* if (autoShard) { ... } else { ... }: the requested shard count, or the
\* message of the error thrown
resolveMaxShards(autoShard, maxShardsInput, totalFiles) ==
  LET parsed == parseInt(maxShardsInput)
  IN IF autoShard
       THEN [error |-> <<>>, value |-> calculateOptimalShards(totalFiles)]
     ELSE IF isNaN(parsed) \/ parsed.value < 1
       THEN [error |-> <<"max-shards must be a positive integer">>, value |-> 0]
     ELSE [error |-> <<>>, value |-> parsed.value]

\* the requested shard count is computed or parsed
ResolveMaxShardsAuto ==
  /\ pc = "maxShards"
  /\ LET resolved == resolveMaxShards(getBooleanInput("auto-shard"), input["max-shards"],
                                      Len(testFiles))
     IN IF resolved.error # <<>>
          THEN Fail(resolved.error) /\ UNCHANGED maxShards
        ELSE maxShards' = resolved.value /\ pc' = "plan" /\ UNCHANGED failed
  /\ UNCHANGED <<analysis, historicalData, testWeights, input, fs, testFiles, currentShard, algorithm, shards, outputs,
                 exported, warnings, testFileCount, optimalShards>>

\* if (testFiles.length === 0) { ...; return; }
NoTestFilesAuto ==
  /\ pc = "plan"
  /\ Len(testFiles) = 0
  /\ warnings' = Append(warnings,
        <<"No test files found. This may indicate a misconfigured test-pattern.">>)
  /\ outputs' = ("shard-number" :> toString(1)) @@ ("total-shards" :> toString(1))
                 @@ ("test-files" :> <<>>) @@ ("test-commands" :> <<>>)
                 @@ ("shard-matrix" :> JSONstringify(<<1>>)) @@ outputs
  /\ pc' = "done"
  /\ UNCHANGED <<analysis, historicalData, testWeights, input, fs, testFiles, currentShard, maxShards, algorithm, shards,
                 exported, failed, testFileCount, optimalShards>>

\* switch (algorithm)
switchAlgorithmAuto(name, files, requested, fileSystem) ==
  CASE name = <<"test-file-count">> ->
         [known |-> TRUE, shards |-> shardByTestFileCount(files, requested),
          warnings |-> <<>>]
    [] name = <<"complexity">> ->
         LET result == shardByComplexityAuto(files, requested, fileSystem)
         IN [known |-> TRUE, shards |-> result,
             warnings |-> AnalysisWarningsAuto(files, fileSystem)
                          \o AnalysisWarningsAuto(Flatten(result), fileSystem)]
    [] OTHER -> [known |-> FALSE, shards |-> <<>>, warnings |-> <<>>]

\* the shards are planned; readFileSync finds the files in any state
SelectAlgorithmAuto ==
  /\ pc = "plan"
  /\ Len(testFiles) # 0
  /\ \E fileSystem \in (IF algorithm = <<"complexity">> THEN AutoFileSystems ELSE {fs}) :
        LET plan == switchAlgorithmAuto(algorithm, testFiles, maxShards, fileSystem)
        IN IF plan.known
             THEN /\ shards' = plan.shards
                  /\ fs' = fileSystem
                  /\ warnings' = warnings \o plan.warnings
                  /\ pc' = "report"
                  /\ UNCHANGED failed
           ELSE /\ Fail(<<"Unknown algorithm: ">> \o algorithm)
                /\ UNCHANGED <<shards, warnings, fs>>
  /\ UNCHANGED <<analysis, historicalData, testWeights, input, testFiles, currentShard, maxShards, algorithm, outputs,
                 exported, testFileCount, optimalShards>>

\* shards[Math.min(currentShard - 1, totalShards - 1)] || []
CurrentShardFilesAuto(allShards, current) ==
  LET totalShards == Len(allShards)
  IN IF isNaN(current) THEN <<>>
     ELSE LET shardIndex == Min(current.value - 1, totalShards - 1)
          IN IF shardIndex + 1 \in DOMAIN allShards THEN allShards[shardIndex + 1] ELSE <<>>

\* the current shard is selected and reported
ReportShardAuto ==
  /\ pc = "report"
  /\ LET totalShards == Len(shards)
         currentShardFiles == CurrentShardFilesAuto(shards, currentShard)
         testCommands == MapCommandsAuto(currentShardFiles)
         finalCommands == finalCommandsAuto(testCommands, input["test-env-vars"])
     IN /\ outputs' = ("shard-number" :> numberToString(currentShard))
                       @@ ("total-shards" :> toString(totalShards))
                       @@ ("test-files" :> join(currentShardFiles, ","))
                       @@ ("shard-matrix" :> JSONstringify([i \in 1..totalShards |-> i]))
                       @@ ("test-commands" :> finalCommands) @@ outputs
        /\ exported' = ("SBT_TEST_FILES" :> join(currentShardFiles, ","))
                        @@ ("SBT_TEST_COMMANDS" :> join(testCommands, " ")) @@ exported
        /\ warnings' = warnings
             \o CommandWarningsAuto(currentShardFiles)
             \o (IF Len(currentShardFiles) > 0 THEN <<>>
                 ELSE <<(<<"No test files assigned to shard ">>
                         \o numberToString(currentShard))>>)
  /\ pc' = "done"
  /\ UNCHANGED <<analysis, historicalData, testWeights, input, fs, testFiles, currentShard, maxShards, algorithm, shards,
                 failed, testFileCount, optimalShards>>

NextAuto ==
  \/ ReadInputsAuto
  \/ DiscoverAuto
  \/ ResolveMaxShardsAuto
  \/ NoTestFilesAuto
  \/ SelectAlgorithmAuto
  \/ ReportShardAuto

SpecAuto == InitAuto /\ [][NextAuto]_vars

(***************************************************************************)
(* Properties.                                                             *)
(***************************************************************************)
Positions(shardList) ==
  UNION {{<<k, i>> : i \in DOMAIN shardList[k]} : k \in DOMAIN shardList}

\* every file of files is at exactly one position of shardList, and
\* shardList holds nothing else
IsPartition(shardList, files) ==
  /\ \A f \in Range(files) :
       Cardinality({p \in Positions(shardList) : shardList[p[1]][p[2]] = f}) = 1
  /\ \A p \in Positions(shardList) : shardList[p[1]][p[2]] \in Range(files)

Partitioned == pc \in {"shardByTestFileCount", "shardByComplexity"}

\* C1: for a non-empty list of distinct files and requestedShards >= 1, the
\* result of either algorithm is a partition of the input: every input file
\* is in exactly one shard exactly once, and no shard holds a foreign file.
C1_ShardsPartitionInput ==
  (Partitioned /\ testFiles # <<>>) => IsPartition(shards, testFiles)

C1_Witness ==
  /\ pc = "shardByComplexity"
  /\ Len(testFiles) = 4
  /\ maxShards = 2
  /\ \A k \in DOMAIN shards : Len(shards[k]) = 2

\* C2: both algorithms return min(requestedShards, files.length) shards,
\* and the empty list for an empty file list.
C2_ShardCountIsMin ==
  Partitioned =>
    /\ Len(shards) = (IF maxShards <= Len(testFiles) THEN maxShards ELSE Len(testFiles))
    /\ (testFiles = <<>> => shards = <<>>)

C2_Witness ==
  /\ pc = "shardByComplexity"
  /\ Len(testFiles) = 2
  /\ maxShards = 3
  /\ Len(shards) = 2

WeightOf(file) == analyzeTestComplexity(file, fs[file])

RECURSIVE WeightSum(_)
WeightSum(files) == IF files = <<>> THEN 0 ELSE WeightOf(Head(files)) + WeightSum(Tail(files))

LargestWeight(files) ==
  CHOOSE w \in {WeightOf(f) : f \in Range(files)} : \A f \in Range(files) : WeightOf(f) <= w

\* C3: after shardByComplexity, the largest per-shard aggregate weight is at
\* most (sum of all weights) / actualShards + (largest single weight);
\* stated without division, multiplied by actualShards.
C3_WeightedBalancingBound ==
  (pc = "shardByComplexity" /\ testFiles # <<>>) =>
    LET actualShards == IF maxShards <= Len(testFiles) THEN maxShards ELSE Len(testFiles)
    IN \A k \in DOMAIN shards :
         actualShards * WeightSum(shards[k])
           <= WeightSum(testFiles) + actualShards * LargestWeight(testFiles)

C3_Witness ==
  /\ pc = "shardByComplexity"
  /\ Len(testFiles) >= 3
  /\ maxShards = 2
  /\ \E k \in DOMAIN shards : 2 * WeightSum(shards[k]) > WeightSum(testFiles)

C5_EmptyBeyondTotalShards ==
  (pc = "done" /\ testFiles # <<>> /\ currentShard > Len(shards)) =>
    outputs["test-files"] = <<>>

NoTestFilesWarning ==
  <<"No test files found. This may indicate a misconfigured test-pattern.">>

\* C6: with a valid shard count and zero discovered files, run reports one
\* empty shard (total-shards 1, shard-matrix [1], empty test-files and
\* test-commands), warns, does not fail and does nothing else, whatever the
\* algorithm name is.
C6_EmptyInputShortCircuit ==
  (pc \in {"report", "done", "failed"} /\ maxShards >= 1 /\ testFiles = <<>>) =>
    /\ pc = "done"
    /\ failed = <<>>
    /\ DOMAIN outputs = {"total-shards", "test-files", "test-commands", "shard-matrix"}
    /\ outputs["total-shards"] = <<"1">>
    /\ outputs["shard-matrix"] = <<"[", "1", "]">>
    /\ outputs["test-files"] = <<>>
    /\ outputs["test-commands"] = <<>>
    /\ warnings = <<NoTestFilesWarning>>
    /\ shards = <<>>
    /\ exported = NoOutput

C6_Witness ==
  /\ pc = "done"
  /\ testFiles = <<>>
  /\ algorithm = <<"unknown-algorithm">>
  /\ outputs["total-shards"] = <<"1">>

\* the message the claim expects for an invalid max-shards, <<>> for the
\* values it says nothing about
ExpectedMaxShardsFailure(ms) ==
  CASE ms = <<>> -> <<"max-shards is required">>
    [] ms \in {<<"a", "b", "c">>, <<"0">>, <<"-", "1">>} ->
         <<"max-shards must be a positive integer">>
    [] ms = <<"1", "0", "1">> -> <<"max-shards cannot exceed 100">>
    [] OTHER -> <<>>

NamedAlgorithms == {<<"round-robin">>, <<"test-file-count">>, <<"complexity">>}

\* C8: with a non-empty file list and a valid shard count, an algorithm name
\* other than round-robin / test-file-count / complexity makes run fail with
\* "Unknown algorithm: <name>", and no shard assignment is produced.
C8_UnknownAlgorithmFails ==
  /\ []((testFiles # <<>> /\ pc \in {"report", "done"}) => algorithm \in NamedAlgorithms)
  /\ [][(pc = "plan" /\ testFiles # <<>> /\ algorithm \notin NamedAlgorithms) =>
          /\ pc' = "failed"
          /\ failed' = <<(<<"Unknown algorithm: ">> \o algorithm)>>
          /\ shards' = <<>>
          /\ outputs' = NoOutput]_vars

C8_Witness ==
  /\ pc = "failed"
  /\ testFiles # <<>>
  /\ failed = <<(<<"Unknown algorithm: ", "unknown-algorithm">>)>>

\* the configuration has been accepted: project-path, shard-number and
\* max-shards are valid and the algorithm is one the switch knows
ValidationPassed ==
  \/ pc = "plan" /\ algorithm \in {<<"round-robin">>, <<"complexity">>}
  \/ pc = "report"

\* C9: once configuration validation has passed, run never fails, whatever
\* the outcome of reading each file is, and the shard assignment contains
\* every discovered file exactly once.
C9_NoFailureAfterValidation ==
  /\ [](pc \in {"report", "done"} =>
          /\ failed = <<>>
          /\ testFiles # <<>> => IsPartition(shards, testFiles))
  /\ [][ValidationPassed => (pc' \in {"report", "done"} /\ failed' = <<>>)]_vars

C9_Witness ==
  /\ pc = "done"
  /\ algorithm = <<"complexity">>
  /\ \E f, g, h \in Range(testFiles) :
       /\ fs[f] = MissingFile
       /\ fs[g] = UnreadableFile
       /\ fs[h] = OversizedFile
  /\ IsPartition(shards, testFiles)

\* k = ceil(n / d)
IsCeilingOf(k, n, d) == d * (k - 1) < n /\ n <= d * k

\* C10: calculateOptimalShards(n) is 1 for n <= 5, ceil(n/5) for 6..20 and
\* min(ceil(n/10), 10) above 20; it is always between 1 and 10, and is
\* 1, 1, 2, 4, 10, 10 for n = 0, 5, 6, 20, 100, 1000.
C10_OptimalShards ==
  pc = "calculateOptimalShards" =>
    LET n == testFileCount
        r == optimalShards
    IN /\ n <= 5 => r = 1
       /\ (6 <= n /\ n <= 20) => IsCeilingOf(r, n, 5)
       /\ (20 < n /\ n <= 100) => IsCeilingOf(r, n, 10)
       /\ n > 100 => r = 10
       /\ 1 <= r /\ r <= 10
       /\ n = 0 => r = 1
       /\ n = 5 => r = 1
       /\ n = 6 => r = 2
       /\ n = 20 => r = 4
       /\ n = 100 => r = 10
       /\ n = 1000 => r = 10

C10_Witness ==
  /\ pc = "calculateOptimalShards"
  /\ testFileCount = 1000
  /\ optimalShards = 10

\* the positive shard count the max-shards input spells out, 0 when it is
\* absent or spells no positive integer
ConfiguredMaxShards ==
  IF \E n \in 1..100 : input["max-shards"] = toString(n)
    THEN CHOOSE n \in 1..100 : input["max-shards"] = toString(n)
  ELSE 0

\* the requested shard count has been determined
RequestedShardsKnown == pc \in {"plan", "report", "done"}

\* C11: whenever max-shards is configured, run uses that value as the
\* requested shard count, also when auto-shard is requested as well.
C11_ExplicitMaxShardsOverrides ==
  (RequestedShardsKnown /\ ConfiguredMaxShards > 0) => maxShards = ConfiguredMaxShards

\* C11, amended: the configured max-shards is the requested shard count
\* exactly when auto-shard is off; with auto-shard on, the requested count is
\* calculateOptimalShards(number of files) whatever max-shards says, and an
\* absent or invalid max-shards does not fail the run.
C11_MaxShardsIgnoredUnderAutoShard ==
  /\ (RequestedShardsKnown /\ input["auto-shard"] = <<"true">>)
       => maxShards = calculateOptimalShards(Len(testFiles))
  /\ (RequestedShardsKnown /\ input["auto-shard"] = <<"false">>)
       => (ConfiguredMaxShards > 0 /\ maxShards = ConfiguredMaxShards)
  /\ (pc = "failed" /\ failed = << <<"max-shards must be a positive integer">> >>)
       => (input["auto-shard"] = <<"false">> /\ ConfiguredMaxShards = 0)
  /\ (pc = "maxShards" /\ input["auto-shard"] = <<"true">>) => ENABLED ResolveMaxShardsAuto

C11_Witness ==
  /\ pc = "report"
  /\ input["auto-shard"] = <<"true">>
  /\ ConfiguredMaxShards = MaxShards
  /\ Len(testFiles) > 5
  /\ maxShards = 2

\* the base directory of the containment check
BaseSegments == <<"work">>

\* the directory a path names, ".." and "." resolved: the segments below the
\* root, relative paths starting at the base directory
RECURSIVE Walk(_, _)
Walk(segs, at) ==
  IF segs = <<>> THEN at
  ELSE IF Head(segs) = <<"..">>
    THEN Walk(Tail(segs), IF at = <<>> THEN <<>> ELSE SubSeq(at, 1, Len(at) - 1))
  ELSE IF Head(segs) = <<".">> THEN Walk(Tail(segs), at)
  ELSE Walk(Tail(segs), Append(at, Head(segs)))

\* the path names a location that is not below the base directory
ResolvesOutside(path) ==
  LET at == Walk(Segments(path, <<>>), IF Head(path) = "/" THEN <<>> ELSE <<BaseSegments>>)
  IN ~(Len(at) >= 1 /\ at[1] = BaseSegments)

Analyzed == pc = "analyzeTestComplexity"

\* C12: analyzeTestComplexity returns an integer >= 1 for every path, also
\* for nonexistent, unreadable and oversized files and for paths the
\* containment check rejects.
C12_ScoreAtLeastOne ==
  Analyzed => (analysis.score \in Nat /\ analysis.score >= 1)

C12_Witness ==
  /\ Analyzed
  /\ analysis.score = 1
  /\ ~fs[testFiles[1]].exists
  /\ testFiles[1] = PathTable[5]

\* C13: for a path that resolves outside the base directory,
\* analyzeTestComplexity returns exactly the path-only score, emits the
\* path-traversal warning and neither stats nor reads the file.
C13_ContainmentBeforeFileAccess ==
  (Analyzed /\ ResolvesOutside(testFiles[1])) =>
     /\ analysis.score = PathScore(testFiles[1])
     /\ analysis.warning = "path-traversal"
     /\ ~analysis.stat
     /\ ~analysis.read
     /\ warnings = << <<"Invalid file path detected (possible path traversal): ">>
                      \o testFiles[1] >>

C13_Witness ==
  /\ Analyzed
  /\ testFiles[1] = <<"/", "etc", "/", "passwd">>
  /\ fs[testFiles[1]] = RichFile
  /\ analysis.warning = "path-traversal"
  /\ analysis.score = 1

\* C14: a file of more than 10 MiB is never read, a warning is emitted and
\* the score is the path-only score; a file of exactly 10 MiB or less, at a
\* path inside the base directory, is read.
C14_SizeGuard ==
  (Analyzed /\ fs[testFiles[1]].exists) =>
     /\ fs[testFiles[1]].size > 10485760 =>
          /\ ~analysis.read
          /\ Len(warnings) = 1
          /\ analysis.warning # "path-traversal" =>
               warnings = << <<"File too large for complexity analysis: ">> \o testFiles[1] >>
          /\ analysis.score = PathScore(testFiles[1])
     /\ (fs[testFiles[1]].size <= 10485760 /\ analysis.warning # "path-traversal") =>
          (analysis.read /\ warnings = <<>>)

C14_Witness ==
  /\ Analyzed
  /\ fs[testFiles[1]] = BoundaryFile
  /\ fs[testFiles[1]].size = 10485760
  /\ analysis.read
  /\ analysis.score = PathScore(testFiles[1]) + 3

\* C17: getTestWeight returns the recorded value unchanged when the
\* historical map is present and has an entry for the path, and the fallback
\* complexity score when the map is absent or has no entry; in one run every
\* file gets a weight, the files with and without a recorded value alike.
C17_HistoricalWeightResolution ==
  pc = "getTestWeight" =>
     /\ Len(testWeights) = Len(testFiles)
     /\ \A i \in DOMAIN testFiles :
          IF historicalData.present
             /\ \E f \in DOMAIN historicalData.entries : f = testFiles[i]
            THEN testWeights[i] = historicalData.entries[testFiles[i]]
          ELSE testWeights[i] = WeightOf(testFiles[i])

C17_Witness ==
  /\ pc = "getTestWeight"
  /\ Len(testFiles) >= 3
  /\ historicalData.present
  /\ DOMAIN historicalData.entries = {testFiles[1]}
  /\ testWeights[1] = 100
  /\ testWeights[2] = WeightOf(testFiles[2])
  /\ testWeights[2] # 100

\* the 1-based position of a file in a list of distinct files
IndexIn(files, file) == CHOOSE i \in DOMAIN files : files[i] = file

\* C16: for a non-empty file list and requestedShards >= 1,
\* shardByTestFileCount puts the file at 0-based input index i into shard
\* (i mod actualShards), and the files of a shard keep their input order;
\* four files over two shards give [f1, f3] and [f2, f4].
C16_RoundRobinPlacement ==
  (pc = "shardByTestFileCount" /\ testFiles # <<>>) =>
     LET actual == IF maxShards < Len(testFiles) THEN maxShards ELSE Len(testFiles)
     IN /\ Len(shards) = actual
        /\ \A i \in 0..(Len(testFiles) - 1) :
             \E p \in DOMAIN shards[(i % actual) + 1] :
                shards[(i % actual) + 1][p] = testFiles[i + 1]
        /\ \A s \in DOMAIN shards : \A p, q \in DOMAIN shards[s] :
             p < q => IndexIn(testFiles, shards[s][p]) < IndexIn(testFiles, shards[s][q])
        /\ (Len(testFiles) = 4 /\ maxShards = 2) =>
             shards = << <<testFiles[1], testFiles[3]>>, <<testFiles[2], testFiles[4]>> >>

C16_Witness ==
  /\ pc = "shardByTestFileCount"
  /\ Len(testFiles) = 4
  /\ maxShards = 2
  /\ shards = << <<testFiles[1], testFiles[3]>>, <<testFiles[2], testFiles[4]>> >>

\* the weights of the files of a list
RECURSIVE WeightsOf(_)
WeightsOf(files) ==
  IF files = <<>> THEN <<>> ELSE <<WeightOf(Head(files))>> \o WeightsOf(Tail(files))

\* the places of the files in the processing order of shardByComplexity,
\* from their weights w and from input index i on: 1 + the number of files
\* that are heavier, or as heavy and earlier in the input
RECURSIVE RanksFrom(_, _)
RanksFrom(w, i) ==
  IF i > Len(w) THEN <<>>
  ELSE <<1 + Cardinality({j \in DOMAIN w : w[j] > w[i] \/ (w[j] = w[i] /\ j < i)})>>
       \o RanksFrom(w, i + 1)

\* the input indices of the files of a shard
RECURSIVE MembersOf(_, _)
MembersOf(files, shard) ==
  IF shard = <<>> THEN <<>>
  ELSE <<IndexIn(files, Head(shard))>> \o MembersOf(files, Tail(shard))

\* the total of the weights w of those input indices of a list that are
\* processed before place k, r being the places
RECURSIVE TotalBefore(_, _, _, _)
TotalBefore(indices, w, r, k) ==
  IF indices = <<>> THEN 0
  ELSE (IF r[Head(indices)] < k THEN w[Head(indices)] ELSE 0)
       + TotalBefore(Tail(indices), w, r, k)

\* C19: shardByComplexity processes the files by non-increasing weight,
\* files of equal weight in input order; each file is appended to the shard
\* whose running total (starting at 0) is minimal at that moment, the lowest
\* index among equal totals, and its weight is added to that total.
C19_GreedyAssignmentSteps ==
  (pc = "shardByComplexity" /\ testFiles # <<>>) =>
     LET w == WeightsOf(testFiles)
         r == RanksFrom(w, 1)
         Members(s) == MembersOf(testFiles, shards[s])
         \* the shard of an input index
         ShardOf(i) ==
           CHOOSE s \in DOMAIN shards : \E p \in DOMAIN shards[s] : shards[s][p] = testFiles[i]
         \* the running total of shard s when the file at place k is assigned
         Total(k, s) == TotalBefore(Members(s), w, r, k)
         sorted == SortByScore(ComplexityWeights(testFiles, fs))
         final == GreedyAfter(sorted, Len(shards), Len(sorted))
     IN /\ \A s \in DOMAIN shards : \A p, q \in DOMAIN shards[s] :
             p < q => r[Members(s)[p]] < r[Members(s)[q]]
        /\ \A s \in DOMAIN shards : Total(1, s) = 0
        /\ \A i \in DOMAIN testFiles : \A s \in DOMAIN shards :
             /\ Total(r[i], ShardOf(i)) <= Total(r[i], s)
             /\ Total(r[i], ShardOf(i)) = Total(r[i], s) => ShardOf(i) <= s
             /\ Total(r[i] + 1, s) = Total(r[i], s) + (IF s = ShardOf(i) THEN w[i] ELSE 0)
        /\ \A k \in DOMAIN sorted : sorted[k].file = testFiles[CHOOSE i \in DOMAIN r : r[i] = k]
        /\ \A s \in DOMAIN shards : final.shardScores[s] = Total(Len(testFiles) + 1, s)

C19_Witness ==
  /\ pc = "shardByComplexity"
  /\ Len(testFiles) = 4
  /\ Len(shards) = 2
  /\ \E i, j \in DOMAIN testFiles :
       i < j /\ WeightOf(testFiles[i]) = WeightOf(testFiles[j])
  /\ \E i, j \in DOMAIN testFiles :
       i < j /\ WeightOf(testFiles[i]) < WeightOf(testFiles[j])
  /\ \E s \in DOMAIN shards : Len(shards[s]) >= 2

\* the text 1,2,...,n for 1 <= n <= 9
RECURSIVE MatrixItems(_)
MatrixItems(n) == IF n = 1 THEN <<"1">> ELSE MatrixItems(n - 1) \o <<",", Digits[n + 1]>>

\* C18: on every successful run the shard-matrix output is the JSON list
\* [1, ..., T], T being the total-shards output, and T is min(requested
\* shard count, number of discovered files) when files exist and 1 when
\* there is none.
C18_ShardMatrixMatchesTotalShards ==
  (pc = "done" /\ failed = <<>>) =>
     LET T == IF testFiles = <<>> THEN 1
              ELSE IF maxShards < Len(testFiles) THEN maxShards ELSE Len(testFiles)
     IN /\ T \in 1..9
        /\ outputs["total-shards"] = <<Digits[T + 1]>>
        /\ outputs["shard-matrix"] = <<"[">> \o MatrixItems(T) \o <<"]">>

C18_Witness ==
  /\ pc = "done"
  /\ failed = <<>>
  /\ Len(testFiles) = 3
  /\ maxShards = 2
  /\ outputs["total-shards"] = <<"2">>
  /\ outputs["shard-matrix"] = <<"[", "1", ",", "2", "]">>

\* C20: for a fixed non-empty file list, algorithm, shard count and weights,
\* the runs for the shard numbers 1..total-shards select pairwise disjoint
\* file lists whose union is the discovered file list: every file is
\* selected by exactly one shard number; the run at hand outputs the list of
\* its own shard number.
C20_ExactlyOnceAcrossShardNumbers ==
  (pc \in {"report", "done"} /\ testFiles # <<>> /\ failed = <<>>) =>
     LET T == Len(shards)
         Selected(k) == CurrentShardFiles(shards, k)
     IN /\ \A i \in DOMAIN testFiles :
             Cardinality({k \in 1..T : \E p \in DOMAIN Selected(k) :
                                          Selected(k)[p] = testFiles[i]}) = 1
        /\ \A k \in 1..T : \A p, q \in DOMAIN Selected(k) :
             /\ \E i \in DOMAIN testFiles : testFiles[i] = Selected(k)[p]
             /\ Selected(k)[p] = Selected(k)[q] => p = q
        /\ pc = "done" =>
             /\ outputs["total-shards"] = toString(T)
             /\ outputs["test-files"] = join(Selected(currentShard), ",")

C20_Witness ==
  /\ pc = "done"
  /\ failed = <<>>
  /\ algorithm = <<"complexity">>
  /\ Len(testFiles) = 3
  /\ Len(shards) = 2
  /\ currentShard = 2
  /\ outputs["test-files"] = join(shards[2], ",")

\* C21: for a non-empty file list and requestedShards >= 1 (the weights
\* being positive), every shard either algorithm returns holds at least one
\* file; with no more files than requested shards every file is alone in
\* its shard.
C21_NoEmptyShard ==
  (Partitioned /\ testFiles # <<>>) =>
     /\ \A i \in DOMAIN testFiles : WeightOf(testFiles[i]) > 0
     /\ Len(shards) >= 1
     /\ \A s \in DOMAIN shards : Len(shards[s]) >= 1
     /\ Len(testFiles) <= maxShards =>
          /\ Len(shards) = Len(testFiles)
          /\ \A s \in DOMAIN shards : Len(shards[s]) = 1

C21_Witness ==
  /\ pc = "shardByComplexity"
  /\ Len(testFiles) = 2
  /\ maxShards = 3
  /\ Len(shards) = 2
  /\ Len(shards[1]) = 1
  /\ Len(shards[2]) = 1
  /\ WeightOf(testFiles[1]) < WeightOf(testFiles[2])

\* the warning that the current shard has no test files
IsEmptyShardWarning(message) ==
  message # <<>> /\ message[Len(message)] = " has no test files assigned"

RECURSIVE TotalsOf(_)
TotalsOf(shardList) ==
  IF shardList = <<>> THEN <<>>
  ELSE <<WeightSum(Head(shardList))>> \o TotalsOf(Tail(shardList))

\* the largest difference between two entries of a list of numbers is at
\* most bound
SpreadAtMost(totals, bound) ==
  \A s, t \in DOMAIN totals : totals[s] - totals[t] <= bound

\* C23: after every assignment step of the greedy loop of shardByComplexity,
\* and at its end, the largest and the smallest per-shard running total
\* differ by at most the largest single file weight.
C23_GreedyBalanceInvariant ==
  (pc = "shardByComplexity" /\ testFiles # <<>>) =>
     LET w == WeightsOf(testFiles)
         largest == CHOOSE x \in Range(w) : \A y \in Range(w) : y <= x
         sorted == SortByScore(ComplexityWeights(testFiles, fs))
     IN /\ \A k \in 0..Len(sorted) :
             LET st == GreedyAfter(sorted, Len(shards), k)
             IN /\ SpreadAtMost(st.shardScores, largest)
                /\ TotalsOf(st.shards) = st.shardScores
        /\ SpreadAtMost(TotalsOf(shards), largest)

C23_Witness ==
  /\ pc = "shardByComplexity"
  /\ Len(testFiles) = 4
  /\ Len(shards) = 2
  /\ \E s, t \in DOMAIN shards :
       /\ WeightSum(shards[s]) - WeightSum(shards[t]) > 1
       /\ Len(shards[s]) = 2
       /\ Len(shards[t]) = 2
  /\ LargestWeight(testFiles) > 1

\* C24: for a non-empty file list and requestedShards >= 1, the sizes of any
\* two shards shardByTestFileCount returns differ by at most 1, and a shard
\* of lower index is never smaller than a shard of higher index.
C24_RoundRobinEvenness ==
  (pc = "shardByTestFileCount" /\ testFiles # <<>>) =>
     \A s, t \in DOMAIN shards :
        /\ Len(shards[s]) - Len(shards[t]) <= 1
        /\ s < t => Len(shards[s]) >= Len(shards[t])

C24_Witness ==
  /\ pc = "shardByTestFileCount"
  /\ Len(testFiles) = 4
  /\ maxShards = 3
  /\ Len(shards[1]) = 2
  /\ Len(shards[2]) = 1
  /\ Len(shards[3]) = 1

\* the path tokens that hold a keyword of each group, as they are written
PropertyTokens == {"property", "Property", "proptest", "PropTest", "propertytest", "PropertyTest"}

IntegrationTokens ==
  {"integration", "Integration", "IntegrationTest", "container", "Container",
   "e2e", "E2E", "endtoend"}

UnitTokens == {"unit", "unittest", "UnitTest"}

HasToken(path, tokens) == \E i \in DOMAIN path : path[i] \in tokens

\* 1, plus 3 for a property keyword, plus 4 for an integration keyword, then
\* one less for a unit keyword but never below 1
ExpectedPathScore(path) ==
  LET added == 1 + (IF HasToken(path, PropertyTokens) THEN 3 ELSE 0)
                 + (IF HasToken(path, IntegrationTokens) THEN 4 ELSE 0)
  IN IF HasToken(path, UnitTokens) THEN (IF added > 1 THEN added - 1 ELSE 1) ELSE added

\* the content of the file did not reach the score: the path was rejected, or
\* the file is missing, too large or unreadable
ContentNotScored ==
  \/ analysis.warning # "none"
  \/ ~fs[testFiles[1]].exists
  \/ ~fs[testFiles[1]].readable

\* C25: the path-only score of analyzeTestComplexity is 1, plus 3 for
\* "property"/"proptest"/"propertytest" in the lower-cased path, plus 4 for
\* "integration"/"container"/"e2e"/"endtoend", then minus 1 floored at 1 for
\* "unit"/"unittest"; a path whose only signal is "unit" scores 1 and the
\* path-only score is one of 1, 3, 4, 5, 7, 8.
C25_PathOnlyScore ==
  Analyzed =>
     LET path == testFiles[1]
     IN /\ PathScore(path) = ExpectedPathScore(path)
        /\ PathScore(path) \in {1, 3, 4, 5, 7, 8}
        /\ ContentNotScored => analysis.score = ExpectedPathScore(path)
        /\ (HasToken(path, UnitTokens) /\ ~HasToken(path, PropertyTokens)
              /\ ~HasToken(path, IntegrationTokens)) => PathScore(path) = 1

C25_Witness ==
  /\ Analyzed
  /\ testFiles[1] = <<"src", "/", "test", "/", "scala", "/", "unit", "/", "PropertyTest", ".scala">>
  /\ fs[testFiles[1]] = MissingFile
  /\ analysis.score = 3

\* the bonus each readable content is worth, whatever the path
ContentBonusTable ==
  << <<PlainFile, 1>>, <<RichFile, 8>>, <<BoundaryFile, 3>>, <<PropertyOnlyFile, 2>>,
     <<FullFile, 10>>, <<Tests10File, 0>>, <<Tests11File, 1>>, <<Tests20File, 1>>,
     <<Tests21File, 2>>, <<Size5000File, 0>>, <<Size5001File, 1>> >>

HasContentBonus(st) == \E i \in DOMAIN ContentBonusTable : ContentBonusTable[i][1] = st

ContentBonusOf(st) ==
  ContentBonusTable[CHOOSE i \in DOMAIN ContentBonusTable : ContentBonusTable[i][1] = st][2]

\* C26: the score analyzeTestComplexity returns is the path-only score plus a
\* bonus between 0 and 10 fixed by the content alone (a keyword of the path
\* that is in the content too counts twice), and a rejected path, a missing,
\* oversized or unreadable file gives the path-only score, bonus 0.
C26_ContentOnlyAdds ==
  Analyzed =>
     LET path == testFiles[1]
         st == fs[path]
         bonus == analysis.score - ExpectedPathScore(path)
     IN /\ bonus \in 0..10
        /\ ContentNotScored => bonus = 0
        /\ ~ContentNotScored => (HasContentBonus(st) /\ bonus = ContentBonusOf(st))

\* "property" in the path and in the content: 1 + 3, and 2 more
C26_Witness ==
  /\ Analyzed
  /\ testFiles[1] = <<"src", "/", "test", "/", "scala", "/", "PropertyTest", ".scala">>
  /\ fs[testFiles[1]] = PropertyOnlyFile
  /\ analysis.score = 6

\* the markers of a test declaration, and the number of characters of each
\* token a keyword-free content is made of
MarkerTokens == {"test(", "test (", "it(", "describe("}

TokenCharacters ==
  [t \in {"test(", "test (", "it(", "describe(", "class", "x"} |->
     CASE t = "test(" -> 5
       [] t = "test (" -> 6
       [] t = "it(" -> 3
       [] t = "describe(" -> 9
       [] t = "class" -> 5
       [] t = "x" -> 1]

KeywordFree(content) == \A i \in DOMAIN content : content[i].tok \in DOMAIN TokenCharacters

\* N: the occurrences of the markers, summed
RECURSIVE MarkerOccurrences(_)
MarkerOccurrences(content) ==
  IF content = <<>> THEN 0
  ELSE (IF Head(content).tok \in MarkerTokens THEN Head(content).n ELSE 0)
       + MarkerOccurrences(Tail(content))

RECURSIVE CharactersOf(_)
CharactersOf(content) ==
  IF content = <<>> THEN 0
  ELSE Head(content).n * TokenCharacters[Head(content).tok] + CharactersOf(Tail(content))

\* C27: with N the summed occurrences of test(, it( and describe( in the
\* content, the bonus is +2 when N > 20, +1 when 11 <= N <= 20 and 0 when
\* N <= 10; the size bonus is +1 when the content is longer than 5000
\* characters and 0 when it has exactly 5000 or fewer.
C27_ContentThresholds ==
  (Analyzed /\ ~ContentNotScored /\ KeywordFree(fs[testFiles[1]].content)) =>
     LET content == fs[testFiles[1]].content
         N == MarkerOccurrences(content)
         length == CharactersOf(content)
         countBonus == IF N > 20 THEN 2 ELSE IF N >= 11 THEN 1 ELSE 0
         sizeBonus == IF length > 5000 THEN 1 ELSE 0
     IN analysis.score = ExpectedPathScore(testFiles[1]) + countBonus + sizeBonus

\* exactly 20 occurrences stay in the +1 band
C27_Witness ==
  /\ Analyzed
  /\ testFiles[1] = <<"src", "/", "test", "/", "scala", "/", "SimpleTest", ".scala">>
  /\ fs[testFiles[1]] = Tests20File
  /\ MarkerOccurrences(fs[testFiles[1]].content) = 20
  /\ analysis.score = 2

\* r is the shard count recommended for n files: 1 up to 5 files, a shard
\* for every 5 files up to 20, a shard for every 10 files above, at most 10
IsRecommendedFor(r, n) ==
  /\ n <= 5 => r = 1
  /\ (6 <= n /\ n <= 20) => IsCeilingOf(r, n, 5)
  /\ (20 < n /\ n <= 100) => IsCeilingOf(r, n, 10)
  /\ n > 100 => r = 10

\* C28: in auto-shard mode the total-shards output of run is
\* calculateOptimalShards(n) for every number n >= 0 of discovered files;
\* the recommended count never exceeds n for n >= 1, so the min with the
\* number of files never reduces it.
C28_AutoShardTotalShards ==
  (pc = "done" /\ failed = <<>> /\ input["auto-shard"] = <<"true">>) =>
     LET n == Len(testFiles)
     IN \E r \in 1..10 :
           /\ IsRecommendedFor(r, n)
           /\ outputs["total-shards"] = toString(r)
           /\ n >= 1 => (r <= n /\ Len(shards) = r /\ maxShards = r)

C28_Witness ==
  /\ pc = "done"
  /\ input["auto-shard"] = <<"true">>
  /\ Len(testFiles) = 6
  /\ Len(shards) = 2
  /\ outputs["total-shards"] = <<"2">>

\* C29: calculateOptimalShards is monotonically non-decreasing in the file
\* count: calculateOptimalShards(n + 1) >= calculateOptimalShards(n) for
\* every n >= 0.
C29_Monotonic ==
  pc = "calculateOptimalShards" =>
     calculateOptimalShards(testFileCount + 1) >= optimalShards

\* C29, amended: calculateOptimalShards(n + 1) >= calculateOptimalShards(n)
\* for every n >= 0 except n = 20, where the divisor changes from 5 to 10
\* and the recommendation drops from 4 shards for 20 files to 3 for 21.
C29_MonotonicExceptAt20 ==
  pc = "calculateOptimalShards" =>
     /\ testFileCount # 20 => calculateOptimalShards(testFileCount + 1) >= optimalShards
     /\ testFileCount = 20 => (optimalShards = 4 /\ calculateOptimalShards(21) = 3)

C29_Witness ==
  /\ pc = "calculateOptimalShards"
  /\ testFileCount = 20
  /\ optimalShards = 4
  /\ calculateOptimalShards(testFileCount + 1) < optimalShards

\* the messages run can fail with
FailureMessages ==
  { <<"Project-path too long">>, <<"Invalid project-path">>,
    <<"shard-number must be a positive integer">>, <<"max-shards is required">>,
    <<"max-shards must be a positive integer">>, <<"max-shards cannot exceed 100">>,
    <<"Unknown algorithm: ", "unknown-algorithm">>, <<"Unknown algorithm: ", "test-file-count">> }

\* C30: the outcomes of run are exclusive: a run that ends in setFailed has
\* set no output and exported no environment variable, and a run that has
\* set an output or exported a variable never calls setFailed.
C30_FailureAtomicity ==
  /\ failed # <<>> =>
       /\ pc = "failed"
       /\ Len(failed) = 1
       /\ failed[1] \in FailureMessages
       /\ outputs = NoOutput
       /\ exported = NoOutput
  /\ pc = "failed" => failed # <<>>
  /\ (outputs # NoOutput \/ exported # NoOutput) => (pc = "done" /\ failed = <<>>)
  /\ pc = "done" => "total-shards" \in DOMAIN outputs

\* the last failure of run: the algorithm is unknown, after the inputs were
\* accepted and the files discovered
C30_Witness ==
  /\ pc = "failed"
  /\ failed = << <<"Unknown algorithm: ", "unknown-algorithm">> >>
  /\ Len(testFiles) = 3
  /\ maxShards = MaxShards
  /\ outputs = NoOutput
  /\ exported = NoOutput

====
